---- MODULE Spec2Model ----
(***************************************************************************)
(* Model of the routing node core (src/src/routing_node.rs): the state     *)
(* machine Disconnected / Bootstrapped / Relocated / Connected /           *)
(* GroupConnected, the connection registry (bootstrap map, relay map,      *)
(* routing table), and the handlers of the transport events and user       *)
(* actions.                                                                *)
(*                                                                         *)
(* The whole of RoutingNode is one record, `node`; every handler is an     *)
(* operator from a node record (and its inputs) to the node record after   *)
(* the handler returned, written statement by statement after the source.  *)
(* What a handler hands to the transport or to the user during one step    *)
(* is kept in the fields sent / drops / connects / events of the record.   *)
(***************************************************************************)
EXTENDS Integers, FiniteSets, Sequences, TLC

VARIABLES node, last

vars == <<node, last>>

(***************************************************************************)
(* Bounds of the model.                                                    *)
(***************************************************************************)
\* width of a name in bits (NameType is 512 bits wide in the program)
NameBits == 4
\* transport connections are 1..MaxConns
MaxConns == 2
\* accepting_on holds at most MaxEndpoints endpoints
MaxEndpoints == 2
\* node peers have the signing keys 1..MaxNodes
MaxNodes == 4
\* client peers have the signing keys MaxNodes+1..MaxNodes+MaxClients
MaxClients == 1

NameSpace == 2 ^ NameBits

Conns == 1..MaxConns

(***************************************************************************)
(* Constants of the program.  GROUP_SIZE and the routing table's capacity  *)
(* are scaled down so that the table can fill within the bounds.           *)
(***************************************************************************)
MAX_RELAYS == 100

GROUP_SIZE == 2

RT_OPTIMAL_SIZE == 3

QUORUM_SIZE == 2

PARALLELISM == 2

(***************************************************************************)
(* Names, keys, identities.                                                *)
(***************************************************************************)
\* sha512: an injective function without fixed point on the name space
Hash(x) == (5 * x + 3) % NameSpace

RECURSIVE XorBits(_, _)
\* bitwise XOR of two names
XorBits(a, b) ==
    IF a = 0 /\ b = 0 THEN 0
    ELSE (((a % 2) + (b % 2)) % 2) + (2 * XorBits(a \div 2, b \div 2))

XorTable == [a \in 0..(NameSpace - 1) |-> [b \in 0..(NameSpace - 1) |-> XorBits(a, b)]]

\* the distance between two names
Xor(a, b) == XorTable[a][b]

\* the signing public key of this node
OurKey == 0

\* PublicId: signing key and name
PublicId(key, name) == [key |-> key, name |-> name]

\* PublicId::is_node: the name is not the hash of the key (it was relocated)
IsNodeId(pid) == pid.name # Hash(pid.key)

\* PublicId::new(&self.id)
OurPublicId(s) == PublicId(OurKey, s.id_name)

NodeIds == {PublicId(k, Hash(Hash(k))) : k \in 1..MaxNodes}

ClientIds == {PublicId(k, Hash(k)) : k \in (MaxNodes + 1)..(MaxNodes + MaxClients)}

\* a node peer that carries the name a seed node gives itself
SelfNamedId == PublicId(MaxNodes + MaxClients + 1, Hash(Hash(OurKey)))

PeerIds == NodeIds \cup ClientIds \cup {SelfNamedId}

(***************************************************************************)
(* Maps (HashMap): a set of [k, v] records with at most one record per k.  *)
(***************************************************************************)
MapKeys(m) == {e.k : e \in m}

MapInsert(m, k, v) == {e \in m : e.k # k} \cup {[k |-> k, v |-> v]}

MapRemove(m, k) == {e \in m : e.k # k}

(***************************************************************************)
(* Outputs of one step.                                                    *)
(***************************************************************************)
\* crust_service.send(connection, bytes)
CrustSend(s, conn, bytes) ==
    [s EXCEPT !.sent = Append(@, [conn |-> conn, bytes |-> bytes])]

\* crust_service.drop_node(connection)
CrustDropNode(s, conn) == [s EXCEPT !.drops = Append(@, conn)]

\* event_sender.send(event)
EmitEvent(s, event) == [s EXCEPT !.events = Append(@, event)]

\* a panic (failed assert!, panic!) unwinds the thread that runs the core
Panic(s) == [s EXCEPT !.pc = "panicked"]

\* the outputs of the previous step are gone when the next step starts
BeginStep(s) ==
    [s EXCEPT !.sent = <<>>, !.drops = <<>>, !.connects = <<>>, !.events = <<>>,
              !.result = "None", !.accumulated = {}, !.dispatched = <<>>,
              !.forwarded = <<>>, !.handling = <<>>, !.nesting = 0, !.depth = 0]

(***************************************************************************)
(* Routing table: a set of NodeInfo records [name, key, conn] kept in the  *)
(* order of XOR distance to the name the table was constructed on.         *)
(***************************************************************************)
\* RoutingTable::new
RoutingTableNew == {}

\* RoutingTable::size
RtSize(s) == Cardinality(s.routing_table)

RtNames(s) == {e.name : e \in s.routing_table}

\* the entry at 1-based position i of the table
RtAt(s, i) ==
    CHOOSE e \in s.routing_table :
        Cardinality({f \in s.routing_table :
                        Xor(f.name, s.rt_name) < Xor(e.name, s.rt_name)}) = i - 1

\* RoutingTable::our_close_group: the GROUP_SIZE closest entries, closest first
RtOurCloseGroup(s) ==
    [i \in 1..(IF RtSize(s) < GROUP_SIZE THEN RtSize(s) ELSE GROUP_SIZE) |-> RtAt(s, i)]

\* RoutingTable::address_in_our_close_group_range
RtAddressInOurCloseGroupRange(s, name) ==
    IF RtSize(s) < GROUP_SIZE THEN TRUE
    ELSE Xor(name, s.rt_name) <= Xor(RtAt(s, GROUP_SIZE).name, s.rt_name)

\* RoutingTable::want_to_add
RtWantToAdd(s, name) ==
    /\ name # s.rt_name
    /\ name \notin RtNames(s)
    /\ \/ RtSize(s) < RT_OPTIMAL_SIZE
       \/ Xor(name, s.rt_name) < Xor(RtAt(s, RtSize(s)).name, s.rt_name)

\* RoutingTable::add_node, the node it removes to make room (a set: none or one)
RtAddNodeRemoved(s, pid) ==
    IF RtWantToAdd(s, pid.name) /\ RtSize(s) >= RT_OPTIMAL_SIZE
    THEN {RtAt(s, RtSize(s))}
    ELSE {}

\* RoutingTable::add_node, the table after the call
RtAddNode(s, conn, pid) ==
    IF RtWantToAdd(s, pid.name)
    THEN (s.routing_table \ RtAddNodeRemoved(s, pid))
            \cup {[name |-> pid.name, key |-> pid.key, conn |-> conn]}
    ELSE s.routing_table

\* RoutingTable::drop_connection: the closest node that holds the connection
RtDropConnection(s, conn) ==
    LET holders == {e \in s.routing_table : e.conn = conn}
    IN  {e \in holders :
            \A f \in holders : Xor(e.name, s.rt_name) <= Xor(f.name, s.rt_name)}

(***************************************************************************)
(* Accessors of RoutingNode.                                               *)
(***************************************************************************)
\* a core that takes itself for a node whatever its routing table holds
AlwaysNode(s) == TRUE

is_node(s) == RtSize(s) > 0

name_in_range(s, name) == RtAddressInOurCloseGroupRange(s, name)

our_address(s) ==
    IF s.network_name # {}
    THEN [kind |-> "Node", id |-> CHOOSE n \in s.network_name : TRUE]
    ELSE [kind |-> "Client", id |-> OurKey]

(***************************************************************************)
(* Naming.                                                                 *)
(***************************************************************************)
\* Id::assign_relocated_name: refused for a relocated id and for its own name
IdAssignRelocatedName(s, name) ==
    s.id_name = Hash(OurKey) /\ name # s.id_name

\* a name assignment that tests neither the state nor the name already set
AssignInAnyState(s, name) ==
    [s EXCEPT !.id_name = name,
              !.routing_table = RoutingTableNew,
              !.rt_name = name,
              !.network_name = {name},
              !.state = "Relocated"]

assign_network_name(s, name) ==
    IF s.state \notin {"Disconnected", "Bootstrapped"} THEN s
    ELSE IF s.network_name # {} THEN s
    ELSE IF ~IdAssignRelocatedName(s, name) THEN s
    ELSE [s EXCEPT !.id_name = name,
                   !.routing_table = RoutingTableNew,
                   !.rt_name = name,
                   !.network_name = {name},
                   !.state = "Relocated"]

assign_name(s, name) == assign_network_name(s, name)

(***************************************************************************)
(* Churn.                                                                  *)
(***************************************************************************)
RECURSIVE SendAll(_, _, _, _)
\* crust_service.send of the same bytes on conns[i], conns[i+1], ...
SendAll(s, conns, i, bytes) ==
    IF i > Len(conns) THEN s
    ELSE SendAll(CrustSend(s, conns[i], bytes), conns, i + 1, bytes)

generate_churn(s, close_group, target) ==
    EmitEvent(SendAll(s, target, 1, [type |-> "Churn", close_group |-> close_group]),
              [type |-> "Churn", close_group |-> close_group])

trigger_churn(s) ==
    LET our_close_group == RtOurCloseGroup(s)
        close_group == <<s.id_name>> \o
            [i \in 1..Len(our_close_group) |-> our_close_group[i].name]
        close_group_connections ==
            [i \in 1..Len(our_close_group) |-> our_close_group[i].conn]
    IN  generate_churn(s, close_group, close_group_connections)

(***************************************************************************)
(* Registry: relay map, routing table.                                     *)
(***************************************************************************)
add_client(s, conn, pid) ==
    LET s1 == IF Cardinality(s.relay_map) = MAX_RELAYS
              THEN CrustDropNode(s, conn) ELSE s
        s2 == [s1 EXCEPT !.relay_map = MapInsert(@, pid.key, conn)]
    IN  IF pid.key \in MapKeys(s1.relay_map)
        THEN s2
        ELSE CrustDropNode(s2, conn)

\* an add_node without the assertion
AddNodeUnchecked(s) == TRUE

\* assert!(self.network_name.is_some()) at the top of add_node
AddNodeAssertion(s) == s.network_name # {}

RECURSIVE DropAll(_, _)
\* crust_service.drop_node on every connection of the removed nodes
DropAll(s, removed) ==
    IF removed = {} THEN s
    ELSE LET e == CHOOSE x \in removed : TRUE
         IN  DropAll(CrustDropNode(s, e.conn), removed \ {e})

\* the bootstrap connections are dropped and the map is replaced by a new one
DropBootstrapConnections(s) ==
    [DropAll(s, {[conn |-> e.k] : e \in s.bootstrap_map})
        EXCEPT !.bootstrap_map = {}]

add_node(s, conn, pid) ==
    IF ~AddNodeAssertion(s) THEN Panic(s)
    ELSE
    LET routing_table_count_prior == RtSize(s)
        should_trigger_churn == name_in_range(s, pid.name)
        added == RtWantToAdd(s, pid.name)
        s1 == [s EXCEPT !.routing_table = RtAddNode(s, conn, pid)]
        s2 == DropAll(s1, RtAddNodeRemoved(s, pid))
        s3 == IF routing_table_count_prior = 0
              THEN [s2 EXCEPT !.state = "Connected"]
              ELSE IF routing_table_count_prior = GROUP_SIZE - 1
              THEN DropBootstrapConnections(
                       EmitEvent([s2 EXCEPT !.state = "GroupConnected"],
                                 [type |-> "Connected"]))
              ELSE s2
    IN  IF added
        THEN IF should_trigger_churn THEN trigger_churn(s3) ELSE s3
        ELSE CrustDropNode(s2, conn)

(***************************************************************************)
(* Lost connections.                                                       *)
(***************************************************************************)
dropped_routing_node_connection(s, conn) ==
    LET found == RtDropConnection(s, conn)
    IN  [s EXCEPT !.routing_table = @ \ found]

\* the relay entries a lost connection may stand for: the HashMap is searched
\* in its iteration order and the first entry on the connection is removed
RelayVictims(s, conn) ==
    LET keys == {e.k : e \in {x \in s.relay_map : x.v = conn}}
    IN  IF keys = {} THEN {{}} ELSE {{k} : k \in keys}

dropped_client_connection(s, conn, victim) ==
    [s EXCEPT !.relay_map = {e \in @ : e.k \notin victim}]

dropped_bootstrap_connection(s, conn) ==
    [s EXCEPT !.bootstrap_map = MapRemove(@, conn)]

handle_lost_connection(s, conn, victim) ==
    dropped_bootstrap_connection(
        dropped_client_connection(
            dropped_routing_node_connection(s, conn), conn, victim), conn)

(***************************************************************************)
(* Identification.                                                         *)
(***************************************************************************)
identify(s, conn) ==
    CrustSend(s, conn, [type |-> "Identify", public_id |-> OurPublicId(s)])

handle_on_connect(s, conn) == identify(s, conn)

\* an accept that assigns no name
AcceptWithoutName(s, conn) == identify(s, conn)

handle_on_accept(s, conn) ==
    IF s.state = "Disconnected"
    THEN identify(assign_name(s, Hash(s.id_name)), conn)
    ELSE identify(s, conn)

\* the Disconnected arm of handle_identify
BootstrapIdentify(s, conn, pid) ==
    IF s.bootstrap_map # {} THEN Panic(s)
    ELSE EmitEvent([s EXCEPT !.bootstrap_map = MapInsert(@, conn, pid.name),
                             !.state = "Bootstrapped"],
                   [type |-> "Bootstrapped"])

\* a Bootstrapped arm that takes the peer as one more bootstrap connection
BootstrapAgain(s, conn, pid) ==
    [s EXCEPT !.bootstrap_map = MapInsert(@, conn, pid.name)]

\* the Bootstrapped arm of handle_identify
BootstrappedIdentify(s, conn, pid) == CrustDropNode(s, conn)

\* a handle_identify that keeps the peers identified in state GroupConnected
\* as bootstrap connections too
IdentifyRecordsBootstrap(s, conn, pid) ==
    CASE s.state = "Disconnected" -> BootstrapIdentify(s, conn, pid)
      [] s.state = "Bootstrapped" -> BootstrappedIdentify(s, conn, pid)
      [] s.state = "Relocated" /\ IsNodeId(pid) -> add_node(s, conn, pid)
      [] s.state = "Relocated" -> CrustDropNode(s, conn)
      [] s.state = "Connected" ->
            IF IsNodeId(pid) THEN add_node(s, conn, pid) ELSE add_client(s, conn, pid)
      [] s.state = "Terminated" -> s
      [] OTHER ->
            [(IF IsNodeId(pid) THEN add_node(s, conn, pid) ELSE add_client(s, conn, pid))
                EXCEPT !.bootstrap_map = MapInsert(@, conn, pid.name)]

handle_identify(s, conn, pid) ==
    LET peer_is_client == ~IsNodeId(pid)
    IN  CASE s.state = "Disconnected" -> BootstrapIdentify(s, conn, pid)
          [] s.state = "Bootstrapped" -> BootstrappedIdentify(s, conn, pid)
          [] s.state = "Relocated" /\ peer_is_client -> CrustDropNode(s, conn)
          [] s.state = "Terminated" -> s
          [] OTHER -> IF peer_is_client
                      THEN add_client(s, conn, pid)
                      ELSE add_node(s, conn, pid)

\* handle_direct_message, Content::Identify
handle_direct_identify(s, conn, pid, signature_ok) ==
    IF ~signature_ok THEN CrustDropNode(s, conn)
    ELSE handle_identify(s, conn, pid)

(***************************************************************************)
(* Authorities, addresses, messages.                                       *)
(***************************************************************************)
ClientAuthority(proxy, key) == [kind |-> "Client", name |-> proxy, key |-> key]

ManagedNode(name) == [kind |-> "ManagedNode", name |-> name, key |-> 0]

NaeManager(name) == [kind |-> "NaeManager", name |-> name, key |-> 0]

ClientManager(name) == [kind |-> "ClientManager", name |-> name, key |-> 0]

NodeManager(name) == [kind |-> "NodeManager", name |-> name, key |-> 0]

\* Authority::is_group
IsGroup(authority) == authority.kind \in {"NaeManager", "ClientManager", "NodeManager"}

\* Authority::get_location: the relay name of a client, else the name
Location(authority) == authority.name

AddressNode(name) == [kind |-> "Node", id |-> name]

AddressClient(key) == [kind |-> "Client", id |-> key]

\* Authority::get_address: Some(address) of a single-node authority, or None
AuthorityAddress(authority) ==
    CASE authority.kind = "Client" -> {AddressClient(authority.key)}
      [] authority.kind = "ManagedNode" -> {AddressNode(authority.name)}
      [] OTHER -> {}

RoutingMessage(from, to, content) == [from |-> from, to |-> to, content |-> content]

\* SignedMessage: the routing message, the claimant, and the key whose secret
\* half made the signature
SignedMessage(claimant, msg, signer) ==
    [msg |-> msg, claimant |-> claimant, signer |-> signer]

\* SignedMessage::new with our signing private key
SignedByUs(claimant, msg) == SignedMessage(claimant, msg, OurKey)

\* SignedMessage::as_token: the serialised (message, claimant) and the signature
AsToken(sm) == sm

\* SignedMessage::new_from_token
NewFromToken(token) == token

\* SignedToken::verify_signature
VerifySignature(token, key) == token.signer = key

ExternalRequest(data_kind, data_name) ==
    [type |-> "ExternalRequest", data_kind |-> data_kind, data_name |-> data_name]

\* ExternalResponse::Get(data, request, Option<SignedToken>)
ExternalResponse(data_kind, data_name, token) ==
    [type |-> "ExternalResponse", data_kind |-> data_kind, data_name |-> data_name,
     token |-> token]

RequestNetworkName(pid) == [type |-> "RequestNetworkName", public_id |-> pid]

RelocatedNetworkName(pid, token) ==
    [type |-> "RelocatedNetworkName", public_id |-> pid, token |-> token]

ConnectRequest(endpoints, pid) ==
    [type |-> "Connect", endpoints |-> endpoints, public_id |-> pid]

Refresh(type_tag, payload, cause) ==
    [type |-> "Refresh", type_tag |-> type_tag, payload |-> payload, cause |-> cause]

RelocatedNetworkNameResponse(relocated_id, close_group_ids, token) ==
    [type |-> "RelocatedNetworkNameResponse", relocated_id |-> relocated_id,
     close_group_ids |-> close_group_ids, token |-> token]

ConnectResponse(endpoints, pid, token) ==
    [type |-> "ConnectResponse", endpoints |-> endpoints, public_id |-> pid,
     token |-> token]

\* the endpoints start_default_acceptors returns in new()
OurEndpoints == <<OurKey>>

is_us(s, address) ==
    IF address.kind = "Client" THEN address.id = OurKey ELSE address.id = s.id_name

get_client_authority(s) ==
    IF s.bootstrap_map = {} THEN {}
    ELSE {ClientAuthority((CHOOSE e \in s.bootstrap_map : TRUE).v, OurKey)}

routing_table_quorum_size(s) ==
    IF RtSize(s) < QUORUM_SIZE THEN RtSize(s) ELSE QUORUM_SIZE

\* the value a handler returns
Result(s, r) == [s EXCEPT !.result = r]

\* authority::our_authority: the authority this node holds for the destination
RtOurAuthority(s, message) ==
    IF IsGroup(message.to)
    THEN IF RtAddressInOurCloseGroupRange(s, Location(message.to))
         THEN {message.to} ELSE {}
    ELSE IF message.to = ManagedNode(s.rt_name) THEN {message.to} ELSE {}

our_authority(s, message) ==
    IF s.network_name # {}
    THEN RtOurAuthority(s, message)
    ELSE {ClientAuthority(Location(message.to), OurKey)}

our_close_group(s) ==
    IF s.network_name # {}
    THEN {<<s.id_name>> \o
            [i \in 1..Len(RtOurCloseGroup(s)) |-> RtOurCloseGroup(s)[i].name]}
    ELSE {}

\* RoutingTable::target_nodes: our close group for a name in its range, else
\* the PARALLELISM entries closest to the name
RtTargetNodes(s, target) ==
    IF RtAddressInOurCloseGroupRange(s, target)
    THEN RtOurCloseGroup(s)
    ELSE LET n == IF RtSize(s) < PARALLELISM THEN RtSize(s) ELSE PARALLELISM
             At(i) == CHOOSE e \in s.routing_table :
                 Cardinality({f \in s.routing_table :
                     Xor(f.name, target) < Xor(e.name, target)}) = i - 1
         IN  [i \in 1..n |-> At(i)]

(***************************************************************************)
(* Data cache.                                                             *)
(***************************************************************************)
\* DataCacheOptions: the data kinds for which caching is enabled
\* a cache that takes every data kind for enabled
EveryKindEnabled(s, data_kind) == TRUE

CachingEnabled(s, data_kind) == data_kind \in s.cache_options

\* DataCache::handle_cache_put: a Get response of a cached kind is stored
handle_cache_put(s, message) ==
    IF message.content.type = "ExternalResponse"
       /\ CachingEnabled(s, message.content.data_kind)
    THEN [s EXCEPT !.data_cache = @ \cup
            {[data_kind |-> message.content.data_kind,
              data_name |-> message.content.data_name]}]
    ELSE s

\* DataCache::handle_cache_get: Some(content) for a Get request of stored data
handle_cache_get(s, message) ==
    IF message.content.type = "ExternalRequest"
       /\ CachingEnabled(s, message.content.data_kind)
       /\ [data_kind |-> message.content.data_kind,
           data_name |-> message.content.data_name] \in s.data_cache
    THEN {ExternalResponse(message.content.data_kind, message.content.data_name, {})}
    ELSE {}

(***************************************************************************)
(* The send path and the ingress pipeline.  send re-enters                 *)
(* handle_routing_message for a destination in our close-group range, and  *)
(* handle_routing_message forwards through send: the operators are         *)
(* mutually recursive, as the functions are.                               *)
(***************************************************************************)
RECURSIVE send(_, _)
RECURSIVE handle_routing_message(_, _)
RECURSIVE send_connect_request(_, _)
RECURSIVE refresh_routing_table(_, _)
RECURSIVE ConnectRequestsTo(_, _, _)

\* the frame of a signed message
Encode(sm) == [type |-> "SignedMessage", signed_message |-> sm]

RECURSIVE SeqOfSet(_)
\* the elements of a set of connections, in increasing order
SeqOfSet(S) ==
    IF S = {} THEN <<>>
    ELSE LET m == CHOOSE x \in S : \A y \in S : x <= y
         IN  <<m>> \o SeqOfSet(S \ {m})

\* the arm of send for a node without routing-table peer (a client)
SendAsClient(s, sm) ==
    IF s.bootstrap_map = {} THEN Panic(s)
    ELSE SendAll(s, SeqOfSet(MapKeys(s.bootstrap_map)), 1, Encode(sm))

\* the arm of send for a destination Client(_, key): the relay connection
SendToRelay(s, sm) ==
    LET found == {e \in s.relay_map : e.k = sm.msg.to.key}
    IN  IF found # {}
        THEN CrustSend(s, (CHOOSE e \in found : TRUE).v, Encode(sm))
        ELSE s

\* whether send hands the message to handle_routing_message as well
SendHandlesLocally(s, sm) == name_in_range(s, Location(sm.msg.to))

send(s, sm) ==
    IF ~is_node(s) THEN SendAsClient(s, sm)
    ELSE IF sm.msg.to.kind = "Client" THEN SendToRelay(s, sm)
    ELSE LET targets == RtTargetNodes(s, Location(sm.msg.to))
             s1 == SendAll(s, [i \in 1..Len(targets) |-> targets[i].conn], 1, Encode(sm))
         IN  IF SendHandlesLocally(s1, sm)
             THEN handle_routing_message(s1, sm)
             ELSE s1

send_connect_request(s, peer_name) ==
    LET content == ConnectRequest(s.accepting_on, OurPublicId(s))
        to == ManagedNode(peer_name)
    IN  CASE s.state = "Disconnected" -> Result(s, "NotBootstrapped")
          [] s.state \in {"Bootstrapped", "Relocated"} ->
                IF get_client_authority(s) = {} THEN Result(s, "NotBootstrapped")
                ELSE LET from == CHOOSE a \in get_client_authority(s) : TRUE
                     IN  Result(send(s, SignedByUs(AddressClient(OurKey),
                                        RoutingMessage(from, to, content))), "Ok")
          [] s.state = "Terminated" -> Result(s, "Terminated")
          [] OTHER ->
                Result(send(s, SignedByUs(AddressNode(s.id_name),
                        RoutingMessage(ManagedNode(s.id_name), to, content))), "Ok")

\* refresh_routing_table without the look into the connection filter
RefreshUnfiltered(s, from_node) ==
    LET s1 == IF RtWantToAdd(s, from_node)
              THEN send_connect_request(s, from_node)
              ELSE s
    IN  IF s1.pc # "running" THEN s1
        ELSE [s1 EXCEPT !.connection_filter = @ \cup {from_node}]

refresh_routing_table(s, from_node) ==
    IF from_node \in s.connection_filter THEN s
    ELSE LET s1 == IF RtWantToAdd(s, from_node)
                   THEN send_connect_request(s, from_node)
                   ELSE s
         IN  IF s1.pc # "running" THEN s1
             ELSE [s1 EXCEPT !.connection_filter = @ \cup {from_node}]

\* send_connect_request to peers[i], peers[i+1], ...
ConnectRequestsTo(s, peers, i) ==
    IF i > Len(peers) \/ s.pc # "running" THEN s
    ELSE ConnectRequestsTo(send_connect_request(s, peers[i].name), peers, i + 1)

\* send_to_user: when event_sender.send fails, because the user has dropped
\* the receiver of the event channel, Action::Terminate is sent to the core's
\* own action channel
send_to_user(s, event) ==
    LET s1 == EmitEvent(s, event)
    IN  IF s.event_receiver = "dropped"
        THEN [s1 EXCEPT !.action_queue = Append(@, "Terminate")]
        ELSE s1

FailedEvent(content, our_auth, to_authority) ==
    [type |-> IF content.type = "ExternalRequest" THEN "FailedRequest" ELSE "FailedResponse",
     content |-> content, our_authority |-> our_auth, location |-> to_authority,
     interface_error |-> "NotConnected"]

send_failed_message_to_user(s, to_authority, content) ==
    IF content.type \in {"ExternalRequest", "ExternalResponse"}
    THEN send_to_user(s, FailedEvent(content, {}, to_authority))
    ELSE s

send_content(s, our_auth, to_authority, content) ==
    IF is_node(s)
    THEN Result(send(s, SignedByUs(AddressNode(s.id_name),
                        RoutingMessage(our_auth, to_authority, content))), "Ok")
    ELSE IF content.type \in {"ExternalRequest", "ExternalResponse"}
    THEN Result(send_to_user(s, FailedEvent(content, {our_auth}, to_authority)), "Ok")
    ELSE Result(s, "Ok")

client_send_content(s, to_authority, content) ==
    IF is_node(s) THEN Panic(s)
    ELSE IF get_client_authority(s) # {}
    THEN send(s, SignedByUs(AddressClient(OurKey),
                RoutingMessage(CHOOSE a \in get_client_authority(s) : TRUE,
                               to_authority, content)))
    ELSE send_failed_message_to_user(s, to_authority, content)

(***************************************************************************)
(* Accumulation.                                                           *)
(***************************************************************************)
\* Accumulator: the number of times a routing message was added
AccumulatorCount(s, message) ==
    LET found == {e \in s.message_accumulator : e.k = message}
    IN  IF found = {} THEN 0 ELSE (CHOOSE e \in found : TRUE).v

\* Accumulator::add under the quorum set before: Some iff the quorum is reached
AccumulatorAdd(s, message) ==
    [s EXCEPT !.message_accumulator =
        MapInsert(@, message, AccumulatorCount(s, message) + 1)]

\* whether accumulate treats the message as one from a group
AccumulatesAsGroup(message) ==
    IsGroup(message.from) /\ message.content.type # "RelocatedNetworkNameResponse"

\* a quorum that one claimant alone completes
QuorumOfOne(s) == IF RtSize(s) < 1 THEN RtSize(s) ELSE 1

\* the quorum asked of the accumulator
DynamicQuorumSize(s) == routing_table_quorum_size(s)

\* accumulate: the node after the call; field `accumulated` holds the returned
\* Option<(RoutingMessage, Option<SignedToken>)> as the set of its token options
accumulate(s, sm) ==
    IF ~AccumulatesAsGroup(sm.msg)
    THEN [s EXCEPT !.accumulated = {{AsToken(sm)}}]
    ELSE IF sm.claimant.kind = "Client"
    THEN [s EXCEPT !.accumulated = {}]
    ELSE LET s1 == AccumulatorAdd(s, sm.msg)
         IN  IF AccumulatorCount(s1, sm.msg) >= DynamicQuorumSize(s)
             THEN [s1 EXCEPT !.handled_messages = @ \cup {sm.msg},
                             !.accumulated = {{}}]
             ELSE [s1 EXCEPT !.accumulated = {}]

(***************************************************************************)
(* The handlers handle_routing_message dispatches to.                      *)
(***************************************************************************)
\* utils::calculate_relocated_name: a function of the original name and of the
\* two members of the close group closest to it
CalculateRelocatedName(close_group, original_name) ==
    LET members == {close_group[i] : i \in 1..Len(close_group)}
        Rank(n) == Cardinality({m \in members :
                        Xor(m, original_name) < Xor(n, original_name)})
        closest == {n \in members : Rank(n) < 2}
        Sum[S \in SUBSET closest] ==
            IF S = {} THEN 0
            ELSE LET x == CHOOSE y \in S : TRUE IN x + Sum[S \ {x}]
    IN  Hash((original_name + Sum[closest]) % NameSpace)

handle_request_network_name(s, public_id, from_authority, to_authority, response_token) ==
    IF s.client_restriction THEN Result(s, "Ok")
    ELSE IF ~(from_authority.kind = "Client" /\ to_authority.kind = "NaeManager")
    THEN Result(s, "BadAuthority")
    ELSE LET close_group_to_client == Hash(from_authority.key)
         IN  IF ~(name_in_range(s, close_group_to_client)
                  /\ close_group_to_client = to_authority.name)
             THEN Result(s, "BadAuthority")
             ELSE IF our_close_group(s) = {} THEN Result(s, "BadAuthority")
             ELSE LET close_group == CHOOSE g \in our_close_group(s) : TRUE
                      relocated_name ==
                          CalculateRelocatedName(close_group, public_id.name)
                      network_public_id ==
                          IF IsNodeId(public_id) \/ public_id.name = relocated_name
                          THEN public_id
                          ELSE PublicId(public_id.key, relocated_name)
                      routing_message ==
                          RoutingMessage(to_authority, NaeManager(relocated_name),
                              RelocatedNetworkName(network_public_id, response_token))
                  IN  Result(send(s, SignedByUs(AddressNode(s.id_name),
                                                routing_message)), "Ok")

handle_relocated_network_name(s, relocated_id, response_token) ==
    LET signed_message == NewFromToken(response_token)
        target_client_authority == signed_message.msg.from
        from_authority == NaeManager(s.id_name)
        close == RtOurCloseGroup(s)
        public_ids ==
            [i \in 1..Len(close) |-> PublicId(close[i].key, close[i].name)]
                \o <<OurPublicId(s)>>
        s1 == [s EXCEPT !.public_id_cache =
                            MapInsert(@, relocated_id.name, relocated_id)]
        routing_message ==
            RoutingMessage(from_authority, target_client_authority,
                RelocatedNetworkNameResponse(relocated_id, public_ids, response_token))
    IN  Result(send(s1, SignedByUs(AddressNode(s.id_name), routing_message)), "Ok")

\* checks that pass whatever the token and the public ids are
AcceptsAnyResponse(s, relocated_id, original_signed_token) == "Ok"

\* the checks of handle_relocation_response on the token and the public ids
RelocationResponseVerdict(s, relocated_id, original_signed_token) ==
    IF ~VerifySignature(original_signed_token, OurKey) THEN "FailedSignature"
    ELSE IF NewFromToken(original_signed_token).msg.content.type # "RequestNetworkName"
    THEN "UnknownMessageType"
    ELSE IF OurPublicId(s) # NewFromToken(original_signed_token).msg.content.public_id
    THEN "BadAuthority"
    ELSE IF PublicId(OurKey, relocated_id.name) # relocated_id
    THEN "BadAuthority"
    ELSE "Ok"

\* what handle_relocation_response assigns once the checks have passed
AcceptRelocation(s, relocated_id) ==
    [s EXCEPT !.proposed_relocated_name = {relocated_id.name},
              !.state = "Relocated"]

handle_relocation_response(s, relocated_id, close_group_ids, original_signed_token) ==
    IF RelocationResponseVerdict(s, relocated_id, original_signed_token) # "Ok"
    THEN Result(s, RelocationResponseVerdict(s, relocated_id, original_signed_token))
    ELSE Result(ConnectRequestsTo(AcceptRelocation(s, relocated_id),
                                  close_group_ids, 1), "Ok")

\* a u32 as two limbs of 16 bits: the value is hi * 2^16 + lo
Limb == 2 ^ 16

U32(hi, lo) == [hi |-> hi, lo |-> lo]

\* u32::wrapping_add(1)
WrappingAddOne(c) ==
    IF c.lo + 1 < Limb THEN U32(c.hi, c.lo + 1)
    ELSE U32((c.hi + 1) % Limb, 0)

\* the token is the counter before the increment; the statement in the branch
\* for a counter of zero is a comparison and assigns nothing
get_connection_token(s) ==
    [s EXCEPT !.connection_counter = WrappingAddOne(@)]

\* connect: crust_service.connect(connection_token, endpoints)
connect(s, connection_token, endpoints) ==
    [s EXCEPT !.connects = Append(@, [token |-> connection_token,
                                      endpoints |-> endpoints])]

handle_connect_request(s, endpoints, public_id, from_authority, response_token) ==
    LET cached == {e \in s.public_id_cache : e.k = public_id.name}
    IN  IF from_authority.kind = "Client"
           /\ (cached = {} \/ (CHOOSE e \in cached : TRUE).v.key # from_authority.key)
        THEN Result(s, "BadAuthority")
        ELSE IF ~VerifySignature(response_token, public_id.key)
        THEN Result(s, "FailedSignature")
        ELSE IF ~RtWantToAdd(s, public_id.name)
        THEN Result(s, "RefusedFromRoutingTable")
        ELSE LET routing_message ==
                     RoutingMessage(ManagedNode(s.id_name), from_authority,
                         ConnectResponse(s.accepting_on, OurPublicId(s), response_token))
                 s1 == send(s, SignedByUs(AddressNode(s.id_name), routing_message))
             IN  IF s1.pc # "running" THEN s1
                 ELSE Result(
                     [connect(get_connection_token(s1), s1.connection_counter, endpoints)
                         EXCEPT !.connection_filter = @ \cup {public_id.name}], "Ok")

\* the checks of handle_connect_response
\* ConnectResponseVerdict without the question to the routing table
VerdictWithoutTable(s, public_id, signed_token) ==
    IF ~VerifySignature(signed_token, OurKey) THEN "FailedSignature"
    ELSE IF AuthorityAddress(NewFromToken(signed_token).msg.from) = {}
    THEN "BadAuthority"
    ELSE IF ~is_us(s, CHOOSE a \in AuthorityAddress(NewFromToken(signed_token).msg.from) : TRUE)
    THEN "BadAuthority"
    ELSE "Ok"

ConnectResponseVerdict(s, public_id, signed_token) ==
    IF ~VerifySignature(signed_token, OurKey) THEN "FailedSignature"
    ELSE IF AuthorityAddress(NewFromToken(signed_token).msg.from) = {}
    THEN "BadAuthority"
    ELSE IF ~is_us(s, CHOOSE a \in AuthorityAddress(NewFromToken(signed_token).msg.from) : TRUE)
    THEN "BadAuthority"
    ELSE IF ~RtWantToAdd(s, public_id.name) THEN "RefusedFromRoutingTable"
    ELSE "Ok"

handle_connect_response(s, endpoints, public_id, signed_token) ==
    IF ConnectResponseVerdict(s, public_id, signed_token) # "Ok"
    THEN Result(s, ConnectResponseVerdict(s, public_id, signed_token))
    ELSE Result(
        [connect(get_connection_token(s), s.connection_counter, endpoints)
            EXCEPT !.connection_filter = @ \cup {public_id.name}], "Ok")

\* the checks of handle_external_response
\* ExternalResponseVerdict without the verification of the token
TokenUnverified(s, response, to_authority) ==
    IF response.token # {} THEN "Ok"
    ELSE IF ~name_in_range(s, Location(to_authority)) THEN "BadAuthority" ELSE "Ok"

ExternalResponseVerdict(s, response, to_authority) ==
    IF response.token # {}
    THEN IF ~VerifySignature(CHOOSE k \in response.token : TRUE, OurKey)
         THEN "FailedSignature" ELSE "Ok"
    ELSE IF ~name_in_range(s, Location(to_authority)) THEN "BadAuthority" ELSE "Ok"

handle_external_response(s, response, to_authority, from_authority) ==
    IF ExternalResponseVerdict(s, response, to_authority) # "Ok"
    THEN Result(s, ExternalResponseVerdict(s, response, to_authority))
    ELSE Result(send_to_user(s, [type |-> "Response", content |-> response,
                                 our_authority |-> to_authority,
                                 from_authority |-> from_authority]), "Ok")

\* RefreshAccumulator::add_message: the payloads by sender of one
\* (type_tag, authority, cause), released once `threshold` senders contributed
RefreshBucket(s, key) ==
    LET found == {e \in s.refresh_accumulator : e.k = key}
    IN  IF found = {} THEN {} ELSE (CHOOSE e \in found : TRUE).v

handle_refresh(s, type_tag, sender, payload, our_auth, cause) ==
    LET threshold == routing_table_quorum_size(s)
        unknown_cause == cause \notin s.refresh_causes
        key == [type_tag |-> type_tag, authority |-> our_auth, cause |-> cause]
        is_new_request == RefreshBucket(s, key) = {}
        bucket == MapInsert(RefreshBucket(s, key), sender, payload)
        s1 == [s EXCEPT !.refresh_accumulator = MapInsert(@, key, bucket)]
        s2 == IF unknown_cause /\ is_new_request
              THEN EmitEvent(s1, [type |-> "DoRefresh", type_tag |-> type_tag,
                                  authority |-> our_auth, cause |-> cause])
              ELSE s1
    IN  IF Cardinality(bucket) >= threshold
        THEN Result(EmitEvent(s2, [type |-> "Refresh", type_tag |-> type_tag,
                                   authority |-> our_auth,
                                   payloads |-> {e.v : e \in bucket}]), "Ok")
        ELSE Result(s2, "NotEnoughSignatures")

(***************************************************************************)
(* The ingress pipeline.                                                   *)
(***************************************************************************)
\* MessageFilter::check on the claimant filter
ClaimantFilterCheck(s, sm) ==
    [msg |-> sm.msg, claimant |-> sm.claimant] \in s.claimant_message_filter

\* MessageFilter::add on the claimant filter
ClaimantFilterAdd(s, sm) ==
    [s EXCEPT !.claimant_message_filter =
                  @ \cup {[msg |-> sm.msg, claimant |-> sm.claimant]}]

\* a handled-messages filter that holds nothing
NeverHandled(s, message) == FALSE

\* MessageFilter::check on the handled-messages filter
HandledCheck(s, message) == message \in s.handled_messages

\* the block `if self.network_name.is_some()`: scan the claimant, mark the
\* (message, claimant) pair and forward the signed message (`forwarded` keeps
\* what the block handed to send during the step)
ScanAndForward(s, sm) ==
    IF s.network_name = {} THEN s
    ELSE LET s1 == IF sm.claimant.kind = "Node"
                   THEN refresh_routing_table(s, sm.claimant.id)
                   ELSE s
         IN  IF s1.pc # "running" THEN s1
             ELSE send([ClaimantFilterAdd(s1, sm) EXCEPT !.forwarded = Append(@, sm)],
                       sm)

\* the check of the destination authority against our calculated authority
\* AuthorityAccepted without the close-group range test for group destinations
AcceptsEveryGroup(s, message) ==
    \/ our_authority(s, message) = {message.to}
    \/ IF IsGroup(message.to)
       THEN TRUE
       ELSE /\ AuthorityAddress(message.to) # {}
            /\ is_us(s, CHOOSE a \in AuthorityAddress(message.to) : TRUE)

AuthorityAccepted(s, message) ==
    \/ our_authority(s, message) = {message.to}
    \/ IF IsGroup(message.to)
       THEN name_in_range(s, Location(message.to))
       ELSE /\ AuthorityAddress(message.to) # {}
            /\ is_us(s, CHOOSE a \in AuthorityAddress(message.to) : TRUE)

\* the arms of `match accumulated_message.content` that return from
\* handle_routing_message directly, past the final match on the result
ReturnsDirectly(s, message, opt_token) ==
    \/ message.content.type \in {"RequestNetworkName", "Connect"} /\ opt_token = {}
    \/ /\ message.content.type = "Refresh"
       /\ \/ our_authority(s, message) = {}
          \/ ~IsGroup(CHOOSE a \in our_authority(s, message) : TRUE)

\* `match accumulated_message.content`
Dispatch(s, sm, opt_token) ==
    LET message == sm.msg
        content == message.content
    IN  CASE content.type = "RequestNetworkName" ->
                IF opt_token = {} THEN Result(s, "UnknownMessageType")
                ELSE handle_request_network_name(s, content.public_id, message.from,
                         message.to, CHOOSE k \in opt_token : TRUE)
          [] content.type = "RelocatedNetworkName" ->
                IF message.from.kind = "NaeManager" /\ message.to.kind = "NaeManager"
                   /\ name_in_range(s, message.to.name)
                THEN handle_relocated_network_name(s, content.public_id, content.token)
                ELSE Result(s, "BadAuthority")
          [] content.type = "Connect" ->
                IF opt_token = {} THEN Result(s, "UnknownMessageType")
                ELSE handle_connect_request(s, content.endpoints, content.public_id,
                         message.from, CHOOSE k \in opt_token : TRUE)
          [] content.type = "Refresh" ->
                IF ReturnsDirectly(s, message, opt_token) THEN Result(s, "BadAuthority")
                ELSE IF sm.claimant.kind = "Node"
                THEN handle_refresh(s, content.type_tag, sm.claimant.id, content.payload,
                         CHOOSE a \in our_authority(s, message) : TRUE, content.cause)
                ELSE Result(s, "BadAuthority")
          [] content.type = "RelocatedNetworkNameResponse" ->
                handle_relocation_response(s, content.relocated_id,
                    content.close_group_ids, content.token)
          [] content.type = "ConnectResponse" ->
                handle_connect_response(s, content.endpoints, content.public_id,
                    content.token)
          [] content.type = "ExternalRequest" ->
                Result(send_to_user(s, [type |-> "Request", content |-> content,
                                        our_authority |-> message.to,
                                        from_authority |-> message.from,
                                        response_token |-> opt_token]), "Ok")
          [] OTHER ->
                handle_external_response(s, content, message.to, message.from)

\* a final match that marks nothing
LeaveUnmarked(s, sm, directly) == s

\* the final `match result`
MarkHandled(s, sm, directly) ==
    IF s.pc = "running" /\ ~directly /\ s.result \in {"Ok", "UnknownMessageType"}
    THEN ClaimantFilterAdd(s, sm)
    ELSE s

\* handle_routing_message from the accumulation on
AccumulateAndDispatch(s, sm) ==
    LET s1 == accumulate(s, sm)
        opt_token == IF s1.accumulated = {} THEN {} ELSE CHOOSE t \in s1.accumulated : TRUE
        s2 == [s1 EXCEPT !.dispatched = Append(@, sm.msg)]
    IN  IF s1.accumulated = {} THEN Result(s1, "NotEnoughSignatures")
        ELSE MarkHandled(Dispatch(s2, sm, opt_token), sm,
                         ReturnsDirectly(s2, sm.msg, opt_token))

\* a call of handle_routing_message begins: `handling` is the stack of the
\* calls in progress, `nesting` the largest number of calls in progress for one
\* signed message and `depth` the largest number of calls in progress, both
\* since the step began
EnterHandler(s, sm) ==
    LET stack == Append(s.handling, sm)
        same == Cardinality({i \in 1..Len(stack) : stack[i] = sm})
    IN  [s EXCEPT !.handling = stack,
                  !.nesting = IF same > @ THEN same ELSE @,
                  !.depth = IF Len(stack) > @ THEN Len(stack) ELSE @]

\* a call of handle_routing_message returns
LeaveHandler(s) == [s EXCEPT !.handling = SubSeq(@, 1, Len(@) - 1)]

\* a cache-hit path that marks the (message, claimant) pair before it replies
ReplyFromCacheMarked(s, sm, content) ==
    send_content(ClaimantFilterAdd(s, sm), ManagedNode(s.id_name), sm.msg.from, content)

\* the cache-hit path: the reply goes to the source of the message through
\* send_content, and handle_routing_message returns
ReplyFromCache(s, sm, content) ==
    send_content(s, ManagedNode(s.id_name), sm.msg.from, content)

\* the body of handle_routing_message
IngressPipeline(s, sm) ==
    IF ClaimantFilterCheck(s, sm) THEN Result(s, "FilterCheckFailed")
    ELSE IF HandledCheck(s, sm.msg) THEN Result(s, "FilterCheckFailed")
    ELSE LET s1 == handle_cache_put(s, sm.msg)
             hit == handle_cache_get(s1, sm.msg)
         IN  IF hit # {}
             THEN ReplyFromCache(s1, sm, CHOOSE c \in hit : TRUE)
             ELSE LET s2 == ScanAndForward(s1, sm)
                  IN  IF s2.pc # "running" THEN s2
                      ELSE IF ~AuthorityAccepted(s2, sm.msg)
                      THEN Result(s2, "BadAuthority")
                      ELSE AccumulateAndDispatch(s2, sm)

handle_routing_message(s, sm) == LeaveHandler(IngressPipeline(EnterHandler(s, sm), sm))

\* handle_churn
RECURSIVE handle_churn(_, _, _)
handle_churn(s, close_group, i) ==
    IF i > Len(close_group) \/ s.pc # "running" THEN s
    ELSE handle_churn(refresh_routing_table(s, close_group[i]), close_group, i + 1)

\* DataCache::set_cache_options
set_cache_options(s, cache_options) == [s EXCEPT !.cache_options = cache_options]

(***************************************************************************)
(* The state after construction (RoutingNode::new).                        *)
(***************************************************************************)
NewNode(client_restriction) ==
    [state |-> "Disconnected",
     id_name |-> Hash(OurKey),
     network_name |-> {},
     rt_name |-> Hash(OurKey),
     routing_table |-> RoutingTableNew,
     bootstrap_map |-> {},
     relay_map |-> {},
     client_restriction |-> client_restriction,
     proposed_relocated_name |-> {},
     connection_counter |-> U32(0, 1),
     claimant_message_filter |-> {},
     handled_messages |-> {},
     connection_filter |-> {},
     message_accumulator |-> {},
     refresh_accumulator |-> {},
     refresh_causes |-> {},
     public_id_cache |-> {},
     cache_options |-> {},
     data_cache |-> {},
     accumulated |-> {},
     dispatched |-> <<>>,
     forwarded |-> <<>>,
     handling |-> <<>>,
     nesting |-> 0,
     depth |-> 0,
     pc |-> "running",
     action_queue |-> <<>>,
     event_receiver |-> "open",
     accepting_on |-> OurEndpoints,
     crust_stopped |-> FALSE,
     crust_receiver |-> "open",
     result |-> "None",
     sent |-> <<>>,
     drops |-> <<>>,
     connects |-> <<>>,
     events |-> <<>>]

\* What is recorded about the run: the event or action of the last step with
\* its connection, the peer's public id and the signed message; the state in
\* which that step started; the event or action of the step before; whether the
\* step delivered the signed message of the step before once more; the states
\* the core has been in
NoMessage == [type |-> "None"]

\* the events and actions that are recorded as the step before; any other is
\* recorded as "other"
RecordedPriors == {"new", "OnAccept", "CachePut"}

\* the actions the loop takes from the action channel, in the first match of
\* an iteration
ActionOps ==
    {"SendContent", "ClientSendContent", "SendToClient", "SetDataCacheOptions",
     "Terminate"}

\* what the user or the transport service does outside the loop
OutsideOps == {"DropEventReceiver", "TransportGone"}

\* the arm of the loop that is next while an action the core queued for itself
\* waits on the channel: the transport arm after the action arm has taken an
\* action, the action arm of the next iteration after the transport arm
NextArm(op) ==
    IF node'.action_queue = <<>> THEN "action"
    ELSE IF op \in ActionOps THEN "transport"
    ELSE IF op \in OutsideOps THEN last.arm
    ELSE "action"

NoInput ==
    [op |-> "new", conn |-> 0, pid |-> PublicId(0, 0), sm |-> NoMessage,
     pre |-> "Disconnected", prior |-> "new", again |-> FALSE,
     seen |-> {"Disconnected"}, arm |-> "action"]

Input(op, conn, pid, sm) ==
    [op |-> op, conn |-> conn, pid |-> pid, sm |-> sm, pre |-> node.state,
     prior |-> IF last.op \in RecordedPriors THEN last.op ELSE "other",
     again |-> (sm # NoMessage /\ sm = last.sm),
     seen |-> last.seen \cup {node'.state}, arm |-> NextArm(op)]

Init ==
    /\ node = NewNode(FALSE)
    /\ last = NoInput

\* RoutingNode::new with keys: Some(id): a relocated id has Terminate queued
\* on the action channel; the routing table is constructed on the hash of the
\* signing key
NewWithKeys(client_restriction, keys) ==
    [NewNode(client_restriction) EXCEPT
        !.id_name = keys.name,
        !.action_queue = IF IsNodeId(keys) THEN <<"Terminate">> ELSE <<>>]

\* the number of actions the core has queued for itself beyond which the loop
\* takes nothing but the queued actions
MaxQueued == 2

\* the loop runs, and takes something other than what the core has queued for
\* itself
Running == node.pc = "running" /\ Len(node.action_queue) <= MaxQueued

\* the loop reaches the match on crust_receiver.try_recv(): every iteration
\* takes an action from the channel first, so that while an action the core
\* queued for itself waits there, a transport event is taken only after the
\* action arm of the same iteration has taken an action queued ahead of it
Polling == Running /\ (node.action_queue = <<>> \/ last.arm = "transport")

(***************************************************************************)
(* The inputs of the message layer.                                        *)
(***************************************************************************)
\* the data kinds of DataCacheOptions that the messages below carry
DataKinds == {1}

\* the name the group messages below are about
DataName == 1

\* a Get request between group authorities
GroupRequest ==
    RoutingMessage(NaeManager(DataName), NaeManager(DataName), ExternalRequest(1, DataName))

\* a Get response that the node peer 1 sends to this node as a client
DirectResponse ==
    RoutingMessage(ManagedNode(Hash(Hash(1))), ClientAuthority(Hash(Hash(1)), OurKey),
                   ExternalResponse(1, DataName, {}))

\* the request for a network name this node signs as a client of `proxy`
NameRequest(proxy) ==
    SignedByUs(AddressClient(OurKey),
        RoutingMessage(ClientAuthority(proxy, OurKey), NaeManager(Hash(OurKey)),
                       RequestNetworkName(PublicId(OurKey, Hash(OurKey)))))

\* the name a relocation response assigns
RelocatedName == 9

\* the reply of the group of RelocatedName to NameRequest(proxy)
RelocationResponse(proxy) ==
    RoutingMessage(NaeManager(RelocatedName), ClientAuthority(proxy, OurKey),
        RelocatedNetworkNameResponse(PublicId(OurKey, RelocatedName),
            <<PublicId(1, Hash(Hash(1)))>>, AsToken(NameRequest(proxy))))

\* the claimants of the delivered messages: the first MaxClaimants node peers
MaxClaimants == 3

Claimants == {AddressNode(Hash(Hash(k))) : k \in 1..MaxClaimants}

\* the group messages, as signed by each claimant
GroupMessages ==
    {SignedMessage(AddressNode(Hash(Hash(k))), GroupRequest, k) : k \in 1..MaxClaimants}
        \cup {SignedMessage(AddressNode(Hash(Hash(1))), DirectResponse, 1)}

\* the node peers of the message layer: peer k arrives on connection k
MessagePeers == {pid \in NodeIds : pid.key \in Conns}

\* the relocation response, as signed by a member of the replying group
RelocationMessages ==
    {SignedMessage(AddressNode(Hash(Hash(1))), RelocationResponse(Hash(Hash(1))), 1)}

(***************************************************************************)
(* One action per transport event and user action of the loop in run().    *)
(***************************************************************************)
OnConnect ==
    \E conn \in Conns :
        /\ Polling
        /\ node' = handle_on_connect(BeginStep(node), conn)
        /\ last' = Input("OnConnect", conn, NoInput.pid, NoMessage)

OnAccept ==
    \E conn \in Conns :
        /\ Polling
        /\ node' = handle_on_accept(BeginStep(node), conn)
        /\ last' = Input("OnAccept", conn, NoInput.pid, NoMessage)

LostConnection ==
    \E conn \in Conns :
        \E victim \in RelayVictims(node, conn) :
            /\ Polling
            /\ node' = handle_lost_connection(BeginStep(node), conn, victim)
            /\ last' = Input("LostConnection", conn, NoInput.pid, NoMessage)

\* NewMessage(connection, bytes) with an Identify whose signature verifies
NewIdentify ==
    \E conn \in Conns, pid \in PeerIds :
        /\ Polling
        /\ node' = handle_direct_identify(BeginStep(node), conn, pid, TRUE)
        /\ last' = Input("Identify", conn, pid, NoMessage)

\* NewMessage(connection, bytes) with the valid Identify of a node peer
NewNodeIdentify ==
    \E pid \in MessagePeers :
        /\ Polling
        /\ node' = handle_direct_identify(BeginStep(node), pid.key, pid, TRUE)
        /\ last' = Input("Identify", pid.key, pid, NoMessage)

\* the client peers of the relay layer
RelayClientIds ==
    {PublicId(k, Hash(k)) : k \in (MaxNodes + 1)..(MaxNodes + MAX_RELAYS + 1)}

\* NewMessage(connection, bytes) with the valid Identify of a client peer; the
\* clients arrive in the order of their keys, on the last connection
NewClientIdentify ==
    \E pid \in RelayClientIds :
        /\ Polling
        /\ pid.key = MaxNodes + Cardinality(node.relay_map) + 1
        /\ node' = handle_direct_identify(BeginStep(node), MaxConns, pid, TRUE)
        /\ last' = Input("Identify", MaxConns, pid, NoMessage)

\* NewMessage(connection, bytes) with an Identify whose signature does not verify
NewBadIdentify ==
    \E conn \in Conns, pid \in {SelfNamedId} :
        /\ Polling
        /\ node' = handle_direct_identify(BeginStep(node), conn, pid, FALSE)
        /\ last' = Input("BadIdentify", conn, pid, NoMessage)

\* NewMessage(connection, bytes) with bytes that decode as a SignedMessage
NewMessage ==
    \E sm \in GroupMessages :
        /\ Polling
        /\ node' = handle_routing_message(BeginStep(node), sm)
        /\ last' = Input("NewMessage", 0, NoInput.pid, sm)

\* NewMessage(connection, bytes) with the reply to a request for a network name
NewRelocationResponse ==
    \E sm \in RelocationMessages :
        /\ Polling
        /\ node' = handle_routing_message(BeginStep(node), sm)
        /\ last' = Input("NewMessage", 0, NoInput.pid, sm)

\* Action::SetDataCacheOptions
SetDataCacheOptions ==
    \E cache_options \in SUBSET DataKinds :
        /\ Running
        /\ node' = set_cache_options(BeginStep(node), cache_options)
        /\ last' = Input("SetDataCacheOptions", 0, NoInput.pid, NoMessage)

\* the external contents, destinations and source authorities of the user's
\* actions
UserContents == {ExternalRequest(1, DataName), ExternalResponse(1, DataName, {})}

UserDestinations == {NaeManager(DataName), ManagedNode(Hash(Hash(1)))}

UserAuthorities == {NaeManager(DataName)}

\* what is recorded of a user action
UserAction(our_auth, to_authority, content) ==
    [type |-> "Action", our_authority |-> our_auth, to |-> to_authority,
     content |-> content]

\* Action::SendContent
SendContent ==
    \E our_auth \in UserAuthorities, to_authority \in UserDestinations,
       content \in UserContents :
        /\ Running
        /\ node' = send_content(BeginStep(node), our_auth, to_authority, content)
        /\ last' = Input("SendContent", 0, NoInput.pid,
                         UserAction({our_auth}, to_authority, content))

\* Action::ClientSendContent
ClientSendContent ==
    \E to_authority \in UserDestinations, content \in UserContents :
        /\ Running
        /\ node' = client_send_content(BeginStep(node), to_authority, content)
        /\ last' = Input("ClientSendContent", 0, NoInput.pid,
                         UserAction({}, to_authority, content))

\* an arm for Action::Terminate that sends the event and stays in the loop
TerminateWithoutBreak(s) == EmitEvent(s, [type |-> "Terminated"])

\* the arm for Action::Terminate: the event is sent, the transport stopped,
\* the loop left
HandleTerminate(s) ==
    [EmitEvent(s, [type |-> "Terminated"])
        EXCEPT !.crust_stopped = TRUE, !.pc = "terminated"]

\* Action::Terminate
Terminate ==
    /\ Running
    /\ node' = HandleTerminate(BeginStep(node))
    /\ last' = Input("Terminate", 0, NoInput.pid, NoMessage)

\* the arm of run() for crust::Event::ExternalEndpoints: every endpoint is
\* pushed onto accepting_on
HandleExternalEndpoints(s, external_endpoints) ==
    [s EXCEPT !.accepting_on = @ \o external_endpoints]

\* the lists of external endpoints the transport reports
ExternalEndpointLists == {<<7>>}

\* crust::Event::ExternalEndpoints(external_endpoints)
ExternalEndpoints ==
    \E external_endpoints \in ExternalEndpointLists :
        /\ Polling
        /\ Len(node.accepting_on) + Len(external_endpoints) <= MaxEndpoints
        /\ node' = HandleExternalEndpoints(BeginStep(node), external_endpoints)
        /\ last' = Input("ExternalEndpoints", 0, NoInput.pid, NoMessage)

\* the close groups that peers report in a Churn message
ChurnGroups == {<<Hash(Hash(4)), Hash(Hash(3))>>}

\* NewMessage(connection, bytes) with a DirectMessage Churn: handle_new_message,
\* handle_direct_message, handle_churn
NewChurn ==
    \E conn \in Conns, close_group \in ChurnGroups :
        /\ Polling
        /\ node' = handle_churn(BeginStep(node), close_group, 1)
        /\ last' = Input("Churn", conn, NoInput.pid, NoMessage)

\* the user drops the receiver of the event channel
DropEventReceiver ==
    /\ Running
    /\ node.event_receiver = "open"
    /\ node' = [BeginStep(node) EXCEPT !.event_receiver = "dropped"]
    /\ last' = Input("DropEventReceiver", 0, NoInput.pid, NoMessage)

\* an Action::Terminate queued on the action channel, by new() or by
\* send_to_user, taken by the action arm of a later iteration, after the
\* actions that were ahead of it on the channel
QueuedTerminate ==
    /\ node.pc = "running"
    /\ node.action_queue # <<>>
    /\ Head(node.action_queue) = "Terminate"
    /\ node' = HandleTerminate([BeginStep(node) EXCEPT !.action_queue = Tail(@)])
    /\ last' = Input("Terminate", 0, NoInput.pid, NoMessage)

\* the connection layer and the relocation handshake
Next ==
    \/ OnConnect
    \/ OnAccept
    \/ LostConnection
    \/ NewIdentify
    \/ NewBadIdentify
    \/ NewRelocationResponse
    \/ NewChurn
    \/ ExternalEndpoints
    \/ Terminate

Spec == Init /\ [][Next]_vars

\* the message layer over the connections of node peers
NextMsg ==
    \/ OnAccept
    \/ NewNodeIdentify
    \/ LostConnection
    \/ NewMessage
    \/ SetDataCacheOptions

SpecMsg == Init /\ [][NextMsg]_vars

\* the user actions over the connections of node peers
NextUser ==
    \/ OnAccept
    \/ NewNodeIdentify
    \/ LostConnection
    \/ SetDataCacheOptions
    \/ SendContent
    \/ ClientSendContent
    \/ Terminate

SpecUser == Init /\ [][NextUser]_vars

\* the relay layer: node peers and a growing population of clients
NextRelay ==
    \/ OnAccept
    \/ NewNodeIdentify
    \/ NewClientIdentify

SpecRelay == Init /\ [][NextRelay]_vars

\* a relocation response from the group of RelocatedName to this node as a
\* client of the node peer 1, with the given relocated id and enclosed token
RelocationResponseWith(relocated_id, token) ==
    RoutingMessage(NaeManager(RelocatedName), ClientAuthority(Hash(Hash(1)), OurKey),
        RelocatedNetworkNameResponse(relocated_id, <<PublicId(1, Hash(Hash(1)))>>, token))

\* tokens that are not our own request for a network name: our request signed
\* with the key of peer 1, a connect request we signed, and a request for a
\* network name we signed for the public id of peer 1
ForeignTokens ==
    {AsToken(SignedMessage(AddressClient(OurKey), NameRequest(Hash(Hash(1))).msg, 1)),
     AsToken(SignedByUs(AddressClient(OurKey),
        RoutingMessage(ClientAuthority(Hash(Hash(1)), OurKey), ManagedNode(Hash(Hash(1))),
                       ConnectRequest(OurEndpoints, PublicId(OurKey, Hash(OurKey)))))),
     AsToken(SignedByUs(AddressClient(OurKey),
        RoutingMessage(ClientAuthority(Hash(Hash(1)), OurKey), NaeManager(Hash(OurKey)),
                       RequestNetworkName(PublicId(1, Hash(1))))))}

\* relocation responses that handle_relocation_response must refuse: a foreign
\* token, or a relocated id that carries the key of peer 1
BadRelocationMessages ==
    {SignedMessage(AddressNode(Hash(Hash(1))),
                   RelocationResponseWith(PublicId(OurKey, RelocatedName), token), 1) :
        token \in ForeignTokens}
    \cup {SignedMessage(AddressNode(Hash(Hash(1))),
              RelocationResponseWith(PublicId(1, RelocatedName),
                                     AsToken(NameRequest(Hash(Hash(1))))), 1)}

\* NewMessage(connection, bytes) with a relocation response that is not the
\* reply to our request
NewBadRelocationResponse ==
    \E sm \in BadRelocationMessages :
        /\ Polling
        /\ node' = handle_routing_message(BeginStep(node), sm)
        /\ last' = Input("NewMessage", 0, NoInput.pid, sm)

\* the reply to a request for a network name that carries the public id of
\* this node as a seed node
SeedRelocationMessages ==
    {SignedMessage(AddressNode(Hash(Hash(1))),
        RelocationResponseWith(PublicId(OurKey, RelocatedName),
            AsToken(SignedByUs(AddressClient(OurKey),
                RoutingMessage(ClientAuthority(Hash(Hash(1)), OurKey),
                               NaeManager(Hash(Hash(OurKey))),
                               RequestNetworkName(PublicId(OurKey, Hash(Hash(OurKey)))))))),
        1)}

\* NewMessage(connection, bytes) with a relocation response for a named node
NewSeedRelocationResponse ==
    \E sm \in SeedRelocationMessages :
        /\ Polling
        /\ node' = handle_routing_message(BeginStep(node), sm)
        /\ last' = Input("NewMessage", 0, NoInput.pid, sm)

\* the relocation handshake over the connections of node peers
NextReloc ==
    \/ OnConnect
    \/ OnAccept
    \/ NewNodeIdentify
    \/ LostConnection
    \/ NewRelocationResponse
    \/ NewBadRelocationResponse
    \/ NewSeedRelocationResponse

SpecReloc == Init /\ [][NextReloc]_vars

\* the connect request this node signs as a client of the node peer 1
ClientConnectRequest(peer_name) ==
    SignedByUs(AddressClient(OurKey),
        RoutingMessage(ClientAuthority(Hash(Hash(1)), OurKey), ManagedNode(peer_name),
                       ConnectRequest(OurEndpoints, PublicId(OurKey, Hash(OurKey)))))

\* the replies of the node peers to that connect request, each signed by the
\* peer that replies
ConnectResponseMessages ==
    {SignedMessage(AddressNode(pid.name),
        RoutingMessage(ManagedNode(pid.name), ClientAuthority(Hash(Hash(1)), OurKey),
            ConnectResponse(<<pid.key>>, pid, AsToken(ClientConnectRequest(pid.name)))),
        pid.key) : pid \in NodeIds}

\* NewMessage(connection, bytes) with the reply to a connect request
NewConnectResponse ==
    \E sm \in ConnectResponseMessages :
        /\ Polling
        /\ node' = handle_routing_message(BeginStep(node), sm)
        /\ last' = Input("NewMessage", 0, NoInput.pid, sm)

\* the values of the connection counter the runs start from: the value after
\* construction, and the last values before the 32-bit counter wraps
TokenStarts ==
    {U32(0, 1), U32(Limb - 1, Limb - 3), U32(Limb - 1, Limb - 2), U32(Limb - 1, Limb - 1)}

\* a core that has handed out the tokens below the start value
InitToken ==
    /\ \E c \in TokenStarts :
          node = [NewNode(FALSE) EXCEPT !.connection_counter = c]
    /\ last = NoInput

\* the connect handshake of a client
NextToken ==
    \/ OnConnect
    \/ NewNodeIdentify
    \/ LostConnection
    \/ NewConnectResponse

SpecToken == InitToken /\ [][NextToken]_vars

\* the keys a core is constructed with: a fresh id, or an id that carries a
\* relocated name
KeysGiven == {PublicId(OurKey, Hash(OurKey)), PublicId(OurKey, RelocatedName)}

InitKeys ==
    /\ \E keys \in KeysGiven : node = NewWithKeys(FALSE, keys)
    /\ last = NoInput

\* the user actions and the connections of node peers, for either kind of keys
NextKeys ==
    \/ OnAccept
    \/ NewNodeIdentify
    \/ LostConnection
    \/ SendContent
    \/ ClientSendContent
    \/ DropEventReceiver
    \/ Terminate
    \/ QueuedTerminate

SpecKeys == InitKeys /\ [][NextKeys]_vars

\* DataCacheOptions::with_caching(structured, plain, immutable): the data kinds
\* for which caching is enabled
WithCaching(structured, plain, immutable) ==
    {k \in {"structured"} : structured} \cup {k \in {"plain"} : plain}
        \cup {k \in {"immutable"} : immutable}

\* the data the cache is asked about: a kind and a name
CachedData ==
    [data_kind : {"structured", "plain", "immutable"}, data_name : {DataName, DataName + 1}]

\* the routing messages of a Get request for the data and of its response
GetRequestFor(data) ==
    RoutingMessage(ClientManager(DataName), NaeManager(data.data_name),
                   ExternalRequest(data.data_kind, data.data_name))

GetResponseFor(data) ==
    RoutingMessage(NaeManager(data.data_name), ClientManager(DataName),
                   ExternalResponse(data.data_kind, data.data_name, {}))

\* set_cache_options with the options of with_caching
SetCachingFor ==
    \E structured \in BOOLEAN, plain \in BOOLEAN, immutable \in BOOLEAN :
        /\ Running
        /\ node' = set_cache_options(BeginStep(node),
                                     WithCaching(structured, plain, immutable))
        /\ last' = Input("SetDataCacheOptions", 0, NoInput.pid, NoMessage)

\* data_cache.handle_cache_put with the Get response for the data
CachePut ==
    \E data \in CachedData :
        /\ Running
        /\ node' = handle_cache_put(BeginStep(node), GetResponseFor(data))
        /\ last' = Input("CachePut", 0, NoInput.pid, data)

\* data_cache.handle_cache_get with the Get request for the data: the result
\* is whether the cache answered
CacheGet ==
    \E data \in CachedData :
        /\ Running
        /\ node' = Result(BeginStep(node),
                          IF handle_cache_get(node, GetRequestFor(data)) # {}
                          THEN "Hit" ELSE "Miss")
        /\ last' = Input("CacheGet", 0, NoInput.pid, data)

\* the data cache under changing options
NextCache ==
    \/ SetCachingFor
    \/ CachePut
    \/ CacheGet

SpecCache == Init /\ [][NextCache]_vars

\* the arm `Err(_)` of the match on crust_receiver.try_recv(): nothing is
\* done, whatever the error, and the loop goes on
HandleTransportError(s) == s

\* the transport service is gone: every sender of the transport channel is
\* dropped
TransportGone ==
    /\ Running
    /\ node.crust_receiver = "open"
    /\ node' = [BeginStep(node) EXCEPT !.crust_receiver = "disconnected"]
    /\ last' = Input("TransportGone", 0, NoInput.pid, NoMessage)

\* an iteration of the loop whose crust_receiver.try_recv() returns
\* Err(Disconnected)
PollTransport ==
    /\ Polling
    /\ node.crust_receiver = "disconnected"
    /\ node' = HandleTransportError(BeginStep(node))
    /\ last' = Input("PollTransport", 0, NoInput.pid, NoMessage)

\* the loop before and after the transport service has gone
NextGone ==
    \/ OnAccept
    \/ NewNodeIdentify
    \/ LostConnection
    \/ Terminate
    \/ TransportGone
    \/ PollTransport

SpecGone == Init /\ [][NextGone]_vars

(***************************************************************************)
(* Properties.                                                             *)
(***************************************************************************)
\* the number of distinct claimants whose delivery of the routing message is
\* marked in the claimant filter
ClaimantsOf(s, message) ==
    Cardinality({e \in s.claimant_message_filter : e.msg = message})

\* C1: in every reachable state the state is GroupConnected iff the routing
\* table holds at least GROUP_SIZE peers, Connected iff it holds more than none
\* and fewer than GROUP_SIZE, and in every other state the table is empty.
StateReflectsTableSize ==
    /\ node.state = "GroupConnected" <=> RtSize(node) >= GROUP_SIZE
    /\ node.state = "Connected" <=> (0 < RtSize(node) /\ RtSize(node) < GROUP_SIZE)
    /\ node.state \notin {"GroupConnected", "Connected"} => RtSize(node) = 0

\* the transitions of the state that the description lists
ListedTransitions ==
    {<<"Disconnected", "Bootstrapped">>, <<"Disconnected", "Relocated">>,
     <<"Bootstrapped", "Relocated">>, <<"Relocated", "Connected">>,
     <<"Connected", "GroupConnected">>}
        \cup {<<from, "Terminated">> :
                from \in {"Disconnected", "Bootstrapped", "Relocated", "Connected",
                          "GroupConnected"}}

\* C2: every step that changes the state takes one of the listed transitions
\* (the state in which the step started, the state in which it ended).
OnlyListedTransitions ==
    last.pre # node.state => <<last.pre, node.state>> \in ListedTransitions

\* C3: a routing message from a group authority (a relocation response apart)
\* is dispatched, and a Request or Response event for it is emitted, only in a
\* step at whose end at least min(routing-table size, QUORUM_SIZE) distinct
\* claimants have delivered that routing message.
GroupQuorumBeforeDispatch ==
    /\ \A i \in 1..Len(node.dispatched) :
          AccumulatesAsGroup(node.dispatched[i]) =>
              ClaimantsOf(node, node.dispatched[i]) >= routing_table_quorum_size(node)
    /\ \A i \in 1..Len(node.events) :
          (/\ node.events[i].type \in {"Request", "Response"}
           /\ IsGroup(node.events[i].from_authority)) =>
              ClaimantsOf(node, RoutingMessage(node.events[i].from_authority,
                                               node.events[i].our_authority,
                                               node.events[i].content))
                  >= routing_table_quorum_size(node)

\* a group message was dispatched with QUORUM_SIZE peers in the routing table
GroupQuorumReached ==
    /\ last.op = "NewMessage"
    /\ RtSize(node) >= QUORUM_SIZE
    /\ Len(node.dispatched) = 1
    /\ AccumulatesAsGroup(node.dispatched[1])
    /\ Len(node.events) = 1
    /\ node.events[1].type = "Request"

\* the number of user events that the delivery of a group message must have
\* produced: one for the claimant that completes the quorum, else none
EventsOwed(s, newly) ==
    IF newly /\ ClaimantsOf(s, last.sm.msg) = QUORUM_SIZE THEN 1 ELSE 0

SecondDeliveryIsSilent ==
    /\ BeginStep(node') = BeginStep(node)
    /\ node'.sent = <<>>
    /\ node'.events = <<>>
    /\ node'.connects = <<>>
    /\ node'.drops = <<>>

\* C5 as stated: delivering a signed message a second time leaves the core in
\* the state of the first delivery and sends and emits nothing more.
RedeliveryIsIdempotent ==
    [][(last'.op = "NewMessage" /\ last'.again) => SecondDeliveryIsSilent]_vars

\* C5, amended: the same for a signed message that is not answered from the
\* data cache (the answer from the cache is sent again for every delivery).
UncachedRedeliveryIsIdempotent ==
    [][(/\ last'.op = "NewMessage"
        /\ last'.again
        /\ handle_cache_get(handle_cache_put(node, last'.sm.msg), last'.sm.msg) = {})
            => SecondDeliveryIsSilent]_vars

\* a signed message that a node with peers had forwarded was delivered again
RedeliveredToNode ==
    /\ last.op = "NewMessage"
    /\ last.again
    /\ RtSize(node) >= 1
    /\ node.result = "FilterCheckFailed"
    /\ [msg |-> last.sm.msg, claimant |-> last.sm.claimant]
           \in node.claimant_message_filter

\* C6: the relay map never holds more than MAX_RELAYS entries.
RelayMapCapped == Cardinality(node.relay_map) <= MAX_RELAYS

\* C7: a valid identify received in state Bootstrapped has the connection
\* dropped and leaves the state and the bootstrap map as they were; the
\* bootstrap map never holds more than one entry.
SecondBootstrapRefused ==
    /\ [](Cardinality(node.bootstrap_map) <= 1)
    /\ [][(node.state = "Bootstrapped" /\ last'.op = "Identify") =>
            /\ node'.state = "Bootstrapped"
            /\ node'.bootstrap_map = node.bootstrap_map
            /\ node'.drops = <<last'.conn>>]_vars

\* a second peer identified itself to the bootstrapped node
SecondIdentifyInBootstrapped ==
    /\ last.op = "Identify"
    /\ last.pre = "Bootstrapped"
    /\ node.state = "Bootstrapped"
    /\ node.drops = <<last.conn>>
    /\ Cardinality(node.bootstrap_map) = 1
    /\ last.conn \notin MapKeys(node.bootstrap_map)

\* the name a seed node gives itself
SeedName == Hash(Hash(OurKey))

\* the identify of a node peer on the connection accepted in state
\* Disconnected by the step before
IdentifyAfterFirstAccept ==
    /\ last.op = "OnAccept"
    /\ last.pre = "Disconnected"
    /\ last'.op = "Identify"
    /\ last'.conn = last.conn
    /\ IsNodeId(last'.pid)

\* C8 as stated: after OnAccept(conn) in state Disconnected and a valid
\* identify of a node peer on conn the state is Relocated, the name is
\* hash(hash(own public key)) and the routing table is new and empty.
RelocatedAfterAcceptAndIdentify ==
    [][IdentifyAfterFirstAccept =>
            /\ node'.state = "Relocated"
            /\ node'.id_name = SeedName
            /\ node'.network_name = {SeedName}
            /\ node'.rt_name = SeedName
            /\ node'.routing_table = RoutingTableNew]_vars

\* C8, amended: OnAccept(conn) in state Disconnected gives the state
\* Relocated, the name hash(hash(own public key)) and a new empty routing
\* table on that name; the valid identify of a node peer on conn that follows
\* puts the peer in the table and gives the state Connected, unless the peer
\* carries this node's name: then its connection is dropped and nothing else
\* changes.
ConnectedAfterAcceptAndIdentify ==
    /\ []((last.op = "OnAccept" /\ last.pre = "Disconnected") =>
            /\ node.state = "Relocated"
            /\ node.id_name = SeedName
            /\ node.network_name = {SeedName}
            /\ node.rt_name = SeedName
            /\ node.routing_table = RoutingTableNew)
    /\ [][IdentifyAfterFirstAccept =>
            /\ node'.id_name = SeedName
            /\ node'.network_name = {SeedName}
            /\ node'.rt_name = SeedName
            /\ IF last'.pid.name # SeedName
               THEN /\ node'.state = "Connected"
                    /\ node'.routing_table =
                          {[name |-> last'.pid.name, key |-> last'.pid.key,
                            conn |-> last'.conn]}
               ELSE /\ node'.state = "Relocated"
                    /\ node'.routing_table = RoutingTableNew
                    /\ node'.drops = <<last'.conn>>]_vars

\* the seed node has its first peer: accepted, then identified
SeedHasFirstPeer ==
    /\ last.op = "Identify"
    /\ last.prior = "OnAccept"
    /\ last.pre = "Relocated"
    /\ last.seen = {"Disconnected", "Relocated", "Connected"}
    /\ node.state = "Connected"
    /\ node.id_name = SeedName
    /\ node.routing_table =
          {[name |-> last.pid.name, key |-> last.pid.key, conn |-> last.conn]}

\* C9: once the state has been Connected the bootstrap map is empty, in that
\* state and in every later one.
BootstrapMapEmptyOnceConnected ==
    "Connected" \in last.seen => node.bootstrap_map = {}

\* the state has been Connected, the routing table has emptied since, and a
\* client has identified itself
ClientAfterConnected ==
    /\ "Connected" \in last.seen
    /\ "GroupConnected" \notin last.seen
    /\ RtSize(node) = 0
    /\ last.op = "Identify"
    /\ ~IsNodeId(last.pid)
    /\ node.bootstrap_map = {}

\* C10: the add that takes the routing table from GROUP_SIZE-1 to GROUP_SIZE
\* peers drops every bootstrap connection and empties the bootstrap map, and
\* the map is empty in every later state.
BootstrapMapEmptyOnceGroupConnected ==
    /\ []("GroupConnected" \in last.seen => node.bootstrap_map = {})
    /\ [][(RtSize(node) = GROUP_SIZE - 1 /\ RtSize(node') = GROUP_SIZE) =>
            /\ node'.bootstrap_map = {}
            /\ \A c \in MapKeys(node.bootstrap_map) :
                  \E i \in 1..Len(node'.drops) : node'.drops[i] = c]_vars

\* the table has held GROUP_SIZE peers, has shrunk, and a peer has identified
\* itself since
IdentifyAfterShrink ==
    /\ "GroupConnected" \in last.seen
    /\ RtSize(node) < GROUP_SIZE
    /\ last.op = "Identify"
    /\ last.pre = "GroupConnected"
    /\ node.bootstrap_map = {}

\* the identity of the core is that of a node: the relocated name is assigned,
\* the network name is set and our address is the node address of that name
IdentityIsNode(s) ==
    /\ IsNodeId(OurPublicId(s))
    /\ s.network_name = {s.id_name}
    /\ our_address(s) = AddressNode(s.id_name)

\* C11: in every reachable state the identity of the core is a node identity
\* iff the state is Relocated, Connected or GroupConnected.
NodeIdentityIffRelocated ==
    IdentityIsNode(node) <=> node.state \in {"Relocated", "Connected", "GroupConnected"}

\* the conditions under which a relocation response is the reply to our own
\* request: the enclosed token is signed with our key, it is our request for a
\* network name with our public id, and the relocated id is our public id with
\* the name replaced
IsReplyToOurRequest(s, content) ==
    /\ content.token.signer = OurKey
    /\ content.token.msg.content = RequestNetworkName(OurPublicId(s))
    /\ content.relocated_id = PublicId(OurKey, content.relocated_id.name)

\* the step handed a relocation response to handle_relocation_response
RelocationResponseDispatched ==
    /\ last'.op = "NewMessage"
    /\ last'.sm.msg.content.type = "RelocatedNetworkNameResponse"
    /\ node'.dispatched = <<last'.sm.msg>>

\* the state and the identity are those before the step
IdentityUnchanged ==
    /\ node'.state = node.state
    /\ node'.id_name = node.id_name
    /\ node'.network_name = node.network_name
    /\ node'.rt_name = node.rt_name
    /\ node'.routing_table = node.routing_table
    /\ node'.proposed_relocated_name = node.proposed_relocated_name

\* C12 as stated: a relocation response that reaches
\* handle_relocation_response moves the state to Relocated and has connect
\* requests sent only if it is the reply to our own request; otherwise an error
\* is returned, the state and the identity stay as they were and the step
\* sends nothing.
RefusedRelocationSendsNothing ==
    [][RelocationResponseDispatched =>
          IF IsReplyToOurRequest(node, last'.sm.msg.content)
          THEN /\ node'.state = "Relocated"
               /\ node'.result = "Ok"
               /\ node'.proposed_relocated_name = {last'.sm.msg.content.relocated_id.name}
          ELSE /\ IdentityUnchanged
               /\ node'.result \in {"FailedSignature", "UnknownMessageType", "BadAuthority"}
               /\ node'.sent = <<>>
               /\ node'.connects = <<>>]_vars

\* C12 amended: as above, but otherwise the step sends exactly what the scan
\* and the forwarding of the received message send before the handler runs,
\* the Connect request of the scan to the claimant included, and nothing more.
RelocationOnlyForOurRequest ==
    [][RelocationResponseDispatched =>
          IF IsReplyToOurRequest(node, last'.sm.msg.content)
          THEN /\ node'.state = "Relocated"
               /\ node'.result = "Ok"
               /\ node'.proposed_relocated_name = {last'.sm.msg.content.relocated_id.name}
          ELSE /\ IdentityUnchanged
               /\ node'.result \in {"FailedSignature", "UnknownMessageType", "BadAuthority"}
               /\ node'.sent = ScanAndForward(BeginStep(node), last'.sm).sent
               /\ node'.connects = <<>>]_vars

\* a bootstrapped node refused a relocation response and sent nothing
RelocationRefused ==
    /\ last.op = "NewMessage"
    /\ last.sm \in BadRelocationMessages
    /\ last.pre = "Bootstrapped"
    /\ node.dispatched = <<last.sm.msg>>
    /\ node.result \in {"FailedSignature", "UnknownMessageType", "BadAuthority"}
    /\ node.state = "Bootstrapped"
    /\ node.sent = <<>>

\* a core with a network name refused a relocation response, and the step
\* still sent a Connect request to the claimant, whose name the scan put into
\* the connection filter
RefusedRelocationScanned ==
    /\ last.op = "NewMessage"
    /\ last.sm.msg.content.type = "RelocatedNetworkNameResponse"
    /\ node.dispatched = <<last.sm.msg>>
    /\ node.result \in {"FailedSignature", "UnknownMessageType", "BadAuthority"}
    /\ node.network_name # {}
    /\ node.state = last.pre
    /\ last.sm.claimant.id \in node.connection_filter
    /\ \E i \in 1..Len(node.sent) :
          /\ node.sent[i].bytes.type = "SignedMessage"
          /\ node.sent[i].bytes.signed_message.msg.content.type = "Connect"
          /\ node.sent[i].bytes.signed_message.msg.to = ManagedNode(last.sm.claimant.id)

\* C13: the network name is assigned at most once: once it is set no step
\* changes it, the name of the identity or the name the routing table is
\* constructed on, and assign_network_name changes nothing in the states
\* Relocated, Connected and GroupConnected, whatever the name.
NameAssignedOnce ==
    /\ [](node.state \in {"Relocated", "Connected", "GroupConnected", "Terminated"} =>
            \A name \in 0..(NameSpace - 1) : assign_network_name(node, name) = node)
    /\ [][node.network_name # {} =>
            /\ node'.network_name = node.network_name
            /\ node'.id_name = node.id_name
            /\ node'.rt_name = node.rt_name]_vars

\* a named node with a peer accepted a relocation response and kept its name
RelocationAfterNaming ==
    /\ last.op = "NewMessage"
    /\ last.sm \in SeedRelocationMessages
    /\ last.pre = "Connected"
    /\ node.result = "Ok"
    /\ node.proposed_relocated_name = {RelocatedName}
    /\ node.network_name = {SeedName}
    /\ node.id_name = SeedName
    /\ RtSize(node) >= 1

\* C14: every token handed to the transport's connect is non-zero (zero is
\* reserved for bootstrap; the counter skips it when it wraps).
TokenNeverZero ==
    \A i \in 1..Len(node.connects) : node.connects[i].token # U32(0, 0)

\* C15: the step that processes Action::Terminate leaves the core in the
\* state Terminated.
TerminateSetsTerminated ==
    last.op = "Terminate" => node.state = "Terminated"

\* the events of type Terminated that the last step emitted
TerminatedEvents(s) ==
    {i \in 1..Len(s.events) : s.events[i].type = "Terminated"}

\* C16: the step that processes Action::Terminate emits Event::Terminated
\* exactly once, stops the transport and ends the loop; no other step emits
\* the event or stops the transport, no step is taken once the loop has ended,
\* and a core constructed with a relocated identity has Terminate queued.
TerminateEndsTheLoop ==
    /\ [](last.op = "Terminate" =>
            /\ Cardinality(TerminatedEvents(node)) = 1
            /\ node.crust_stopped
            /\ node.pc = "terminated")
    /\ [](last.op # "Terminate" =>
            /\ TerminatedEvents(node) = {}
            /\ ~node.crust_stopped
            /\ node.pc # "terminated")
    /\ []((last.op = "new" /\ IsNodeId(OurPublicId(node))) =>
            node.action_queue = <<"Terminate">>)
    /\ [][node.pc # "terminated"]_vars

\* a core constructed with a relocated identity has terminated itself
\* before anything else was processed
SelfTerminated ==
    /\ last.op = "Terminate"
    /\ last.prior = "new"
    /\ IsNodeId(OurPublicId(node))
    /\ node.action_queue = <<>>
    /\ node.events = <<[type |-> "Terminated"]>>
    /\ node.crust_stopped
    /\ node.pc = "terminated"

\* the failure events among the events of the last step
FailureEvents(s) ==
    {i \in 1..Len(s.events) : s.events[i].type \in {"FailedRequest", "FailedResponse"}}

\* the last step emitted exactly one event: the failure event for the content
\* of the user's action, with the interface error NotConnected
OneFailureEvent(s, action) ==
    /\ Len(s.events) = 1
    /\ s.events[1].type = IF action.content.type = "ExternalRequest"
                          THEN "FailedRequest" ELSE "FailedResponse"
    /\ s.events[1].content = action.content
    /\ s.events[1].location = action.to
    /\ s.events[1].our_authority = action.our_authority
    /\ s.events[1].interface_error = "NotConnected"

\* the signed message that send_content makes of the user's action
SignedForUser(s, action) ==
    [msg |-> [from |-> CHOOSE a \in action.our_authority : TRUE, to |-> action.to,
              content |-> action.content],
     claimant |-> [kind |-> "Node", id |-> s.id_name],
     signer |-> OurKey]

\* C17: Action::SendContent with external content, processed with an empty
\* routing table, transmits nothing and emits exactly one FailedRequest or
\* FailedResponse with NotConnected; processed with peers in the routing
\* table it emits no failure event and hands the message it signed to the
\* send path: that message is the first the step transmits.
SendContentNeedsNodeMode ==
    last.op = "SendContent" =>
        IF RtSize(node) = 0
        THEN /\ node.sent = <<>>
             /\ OneFailureEvent(node, last.sm)
        ELSE /\ FailureEvents(node) = {}
             /\ node.sent # <<>>
             /\ node.sent[1].bytes =
                   [type |-> "SignedMessage",
                    signed_message |-> SignedForUser(node, last.sm)]
             /\ node.pc = "running"

\* a client was refused a response it wanted to send
SendContentRefused ==
    /\ last.op = "SendContent"
    /\ last.pre = "Bootstrapped"
    /\ last.sm.content.type = "ExternalResponse"
    /\ node.bootstrap_map # {}
    /\ node.sent = <<>>
    /\ Len(node.events) = 1
    /\ node.events[1].type = "FailedResponse"

\* C18: Action::ClientSendContent with external content, processed when the
\* core has no bootstrap connection or has peers in its routing table, emits
\* exactly one FailedRequest or FailedResponse with NotConnected, sends
\* nothing and leaves the loop running; processed with a bootstrap connection
\* and an empty routing table it is sent on the bootstrap connection and no
\* failure event is emitted.
ClientSendContentOutcome ==
    last.op = "ClientSendContent" =>
        IF node.bootstrap_map = {} \/ RtSize(node) > 0
        THEN /\ node.pc = "running"
             /\ node.sent = <<>>
             /\ OneFailureEvent(node, last.sm)
        ELSE /\ node.pc = "running"
             /\ FailureEvents(node) = {}
             /\ Len(node.sent) = Cardinality(node.bootstrap_map)
             /\ \A i \in 1..Len(node.sent) :
                   /\ node.sent[i].conn \in MapKeys(node.bootstrap_map)
                   /\ node.sent[i].bytes.signed_message.msg.to = last.sm.to
                   /\ node.sent[i].bytes.signed_message.msg.content = last.sm.content
                   /\ node.sent[i].bytes.signed_message.claimant =
                          [kind |-> "Client", id |-> OurKey]

\* the signed message of the step passes both filters, is not answered from
\* the data cache, and the core has a network name
PassesToForwarding(s, sm) ==
    /\ [msg |-> sm.msg, claimant |-> sm.claimant] \notin s.claimant_message_filter
    /\ sm.msg \notin s.handled_messages
    /\ handle_cache_get(handle_cache_put(s, sm.msg), sm.msg) = {}
    /\ s.network_name # {}

\* C19: every signed message that passes the filters and is not answered from
\* the data cache while the core has a network name is handed to the send path
\* unmodified, whatever the authority check, the accumulation and the dispatch
\* return afterwards; a node with peers transmits it as received unless the
\* destination is a client.
ForwardingIsNotGated ==
    [][(last'.op = "NewMessage" /\ PassesToForwarding(node, last'.sm)) =>
          /\ \E i \in 1..Len(node'.forwarded) : node'.forwarded[i] = last'.sm
          /\ (RtSize(node) > 0 /\ last'.sm.msg.to.kind # "Client") =>
                \E i \in 1..Len(node'.sent) :
                    node'.sent[i].bytes =
                        [type |-> "SignedMessage", signed_message |-> last'.sm]]_vars

\* the close group of the core as a churn carries it: our own name first
ChurnList(s) ==
    <<s.id_name>> \o [i \in 1..Len(RtOurCloseGroup(s)) |-> RtOurCloseGroup(s)[i].name]

\* the last step sent the churn of the current close group on the connection
\* of every peer of the close group and emitted the same list to the user
ChurnSent(s) ==
    /\ \A i \in 1..Len(RtOurCloseGroup(s)) :
          \E j \in 1..Len(s.sent) :
              s.sent[j] = [conn |-> RtOurCloseGroup(s)[i].conn,
                           bytes |-> [type |-> "Churn", close_group |-> ChurnList(s)]]
    /\ \E j \in 1..Len(s.events) :
          s.events[j] = [type |-> "Churn", close_group |-> ChurnList(s)]

\* the last step sent no churn and emitted none
NoChurn(s) ==
    /\ \A j \in 1..Len(s.sent) : s.sent[j].bytes.type # "Churn"
    /\ \A j \in 1..Len(s.events) : s.events[j].type # "Churn"

\* C20: when an identify adds a peer to the routing table, or a lost
\* connection drops one from it, and the peer is in our close-group range, the
\* churn of the current close group (our own name first) is sent on the
\* connection of every close-group peer and emitted to the user; when the peer
\* is outside the range no churn is sent or emitted.
ChurnOnCloseGroupChange ==
    [][/\ (last'.op = "Identify" /\ node'.routing_table \ node.routing_table # {}) =>
            IF RtAddressInOurCloseGroupRange(node, last'.pid.name)
            THEN ChurnSent(node')
            ELSE NoChurn(node')
       /\ (last'.op = "LostConnection" /\ node.routing_table \ node'.routing_table # {}) =>
            IF \E e \in node.routing_table \ node'.routing_table :
                   RtAddressInOurCloseGroupRange(node, e.name)
            THEN ChurnSent(node')
            ELSE NoChurn(node')]_vars

\* C21: on a fresh node caching is off for every data kind; the query with
\* the Get request that follows the put of the matching Get response is a hit
\* iff caching is enabled for the data kind of the message; a query while
\* nothing has been put is a miss.
CacheHitIffEnabled ==
    /\ last.op = "new" => node.cache_options = {} /\ node.data_cache = {}
    /\ (last.op = "CacheGet" /\ last.prior = "CachePut" /\ last.again) =>
          (node.result = "Hit" <=> last.sm.data_kind \in node.cache_options)
    /\ (last.op = "CacheGet" /\ node.data_cache = {}) => node.result = "Miss"

\* with caching enabled for immutable data only, the response for immutable
\* data was put and the matching request answered from the cache
ImmutableDataHit ==
    /\ last.op = "CacheGet"
    /\ last.prior = "CachePut"
    /\ last.again
    /\ last.sm.data_kind = "immutable"
    /\ node.cache_options = {"immutable"}
    /\ node.result = "Hit"

\* C22: the iteration of the loop that finds the transport channel
\* disconnected emits Event::Terminated and leaves the loop.
TransportGoneTerminates ==
    last.op = "PollTransport" =>
        /\ node.pc = "terminated"
        /\ TerminatedEvents(node) # {}

\* C23: a LostConnection step that takes the routing table from a positive
\* size to 0 leaves the state Disconnected with a new, empty routing table.
LosingLastPeerDisconnects ==
    [][(/\ last'.op = "LostConnection"
        /\ RtSize(node) > 0
        /\ RtSize(node') = 0)
       => (/\ node'.state = "Disconnected"
           /\ node'.routing_table = RoutingTableNew)]_vars

\* A core constructed with client_restriction = true.
InitClient ==
    /\ node = NewNode(TRUE)
    /\ last = NoInput

NextClient ==
    \/ OnConnect
    \/ OnAccept
    \/ NewNodeIdentify
    \/ LostConnection
    \/ Terminate

SpecClient == InitClient /\ [][NextClient]_vars

\* C24: a core created with client_restriction = true is only ever in state
\* Disconnected or Bootstrapped, has no network name and no routing-table peer.
ClientStaysClient ==
    node.client_restriction =>
        /\ node.state \in {"Disconnected", "Bootstrapped"}
        /\ node.network_name = {}
        /\ RtSize(node) = 0

\* the transmissions of the step that carry a signed RequestNetworkName for
\* our public id, addressed to NaeManager(hash(public_key))
NameRequestsSent(s) ==
    {i \in 1..Len(s.sent) :
        /\ s.sent[i].bytes.type = "SignedMessage"
        /\ s.sent[i].bytes.signed_message.msg.content = RequestNetworkName(OurPublicId(s))
        /\ s.sent[i].bytes.signed_message.msg.to = NaeManager(Hash(OurKey))
        /\ s.sent[i].bytes.signed_message.signer = OurKey}

\* C25: the identify that takes a core without client restriction from
\* Disconnected to Bootstrapped sends a signed RequestNetworkName(public_id)
\* to NaeManager(hash(public_key)) over the bootstrap connection.
BootstrappedRequestsName ==
    (/\ last.op = "Identify"
     /\ last.pre = "Disconnected"
     /\ node.state = "Bootstrapped"
     /\ ~node.client_restriction)
    => \E i \in NameRequestsSent(node) : node.sent[i].conn = last.conn

\* The connect request a core named our_name sends to peer_name once it has
\* routing connections (send_connect_request, states Connected and above).
NodeConnectRequest(our_name, peer_name) ==
    SignedByUs(AddressNode(our_name),
        RoutingMessage(ManagedNode(our_name), ManagedNode(peer_name),
                       ConnectRequest(OurEndpoints, PublicId(OurKey, our_name))))

\* Tokens a responder may enclose for a destination authority of ours: our own
\* request, the same request under the responder's signature, and a message
\* we signed whose from_authority is the responder, not us.
ResponseTokens(pid, to) ==
    LET ours == IF to.kind = "Client" THEN ClientConnectRequest(pid.name)
                ELSE NodeConnectRequest(to.name, pid.name)
    IN  {AsToken(ours),
         AsToken(SignedMessage(ours.claimant, ours.msg, pid.key)),
         AsToken(SignedByUs(AddressNode(pid.name),
              RoutingMessage(ManagedNode(pid.name), ManagedNode(pid.name),
                             ours.msg.content)))}

\* the authority a responder addresses us by once we are the seed node
OurDestinations == {ManagedNode(SeedName)}

ConnectResponseInputs ==
    {SignedMessage(AddressNode(pid.name),
        RoutingMessage(ManagedNode(pid.name), to, ConnectResponse(<<pid.key>>, pid, token)),
        pid.key) :
        <<pid, to, token>> \in
            {x \in MessagePeers \X OurDestinations
                   \X UNION {ResponseTokens(y[1], y[2]) :
                               y \in MessagePeers \X OurDestinations} :
                x[3] \in ResponseTokens(x[1], x[2])}}

NewAnyConnectResponse ==
    \E sm \in ConnectResponseInputs :
        /\ Polling
        /\ node' = handle_routing_message(BeginStep(node), sm)
        /\ last' = Input("ConnectResponse", 0, NoInput.pid, sm)

NextConn ==
    \/ OnAccept
    \/ NewNodeIdentify
    \/ LostConnection
    \/ NewAnyConnectResponse

SpecConn == Init /\ [][NextConn]_vars

\* the three conditions on a Connect response, on the state s before the step
ResponseValid(s, response) ==
    /\ response.token.signer = OurKey
    /\ \E a \in AuthorityAddress(response.token.msg.from) : is_us(s, a)
    /\ RtWantToAdd(s, response.public_id.name)

\* the names the scan for remote names may put into the connection filter
\* when the signed message sm arrives in state s: the claimant's, and our own
\* when the connect request the scan sends is handled locally and scanned too
ScanAdds(s, sm) ==
    IF s.network_name # {} /\ sm.claimant.kind = "Node"
    THEN {sm.claimant.id} \cup s.network_name
    ELSE {}

\* C26 as stated: a transport connect is initiated for a Connect response only
\* if its token carries our signature, the request in it is from us and the
\* routing table wants the responder; in every other case no connect is
\* initiated and the connection filter is unchanged.
ConnectOnlyOnValidResponse ==
    [][last'.op = "ConnectResponse" =>
        /\ node'.connects # <<>> => ResponseValid(node, last'.sm.msg.content)
        /\ ~ResponseValid(node, last'.sm.msg.content) =>
              /\ node'.connects = <<>>
              /\ node'.connection_filter = node.connection_filter]_vars

\* C26 amended: as above, but in every other case the connection filter gains
\* at most the claimant's name and our own, which the scan for remote names
\* adds for the messages of node claimants once the core has a network name.
ConnectOnlyOnValidResponseScan ==
    [][last'.op = "ConnectResponse" =>
        /\ node'.connects # <<>> => ResponseValid(node, last'.sm.msg.content)
        /\ ~ResponseValid(node, last'.sm.msg.content) =>
              /\ node'.connects = <<>>
              /\ node.connection_filter \subseteq node'.connection_filter
              /\ node'.connection_filter \ node.connection_filter
                    \subseteq ScanAdds(node, last'.sm)]_vars

\* a Connect response with our own token, from a responder the routing table
\* wants, made the core initiate a transport connect
ConnectInitiated ==
    /\ last.op = "ConnectResponse"
    /\ node.result = "Ok"
    /\ Len(node.connects) = 1
    /\ last.sm.msg.content.public_id.name \in node.connection_filter

\* a Connect response whose token carries a foreign signature was refused
\* by a core that has a network name and a routing connection
ForgedTokenRefused ==
    /\ last.op = "ConnectResponse"
    /\ node.result = "FailedSignature"
    /\ node.connects = <<>>
    /\ RtSize(node) > 0

\* C27: no inbound signed message aborts the core.  On the path of a signed
\* message the only abort is the one of send() for an empty bootstrap map.
InboundMessageNeverAborts ==
    last.op = "NewMessage" => node.pc # "panicked"

\* C28: the identify of a node peer handled in state Relocated, Connected or
\* GroupConnected reaches add_node with network_name set: the assertion at
\* the top of add_node does not abort the core.
AddNodeFindsNetworkName ==
    (/\ last.op = "Identify"
     /\ IsNodeId(last.pid)
     /\ last.pre \in {"Relocated", "Connected", "GroupConnected"})
    => node.pc # "panicked"

\* a signing key that belongs to none of the peers
ForgerKey == MaxNodes + MaxClients + 1

\* the claimant's signature of a signed message verifies: the signer is the
\* client key the claimant address names, or the key of the node it names
ClaimantSignatureVerifies(sm) ==
    IF sm.claimant.kind = "Client" THEN sm.signer = sm.claimant.id
    ELSE \E pid \in NodeIds : pid.name = sm.claimant.id /\ pid.key = sm.signer

\* the delivered messages with the signature of a key that is not the claimant's
ForgedMessages == {SignedMessage(sm.claimant, sm.msg, ForgerKey) : sm \in GroupMessages}

NewForgedMessage ==
    \E sm \in ForgedMessages :
        /\ Polling
        /\ node' = handle_routing_message(BeginStep(node), sm)
        /\ last' = Input("ForgedMessage", 0, NoInput.pid, sm)

NextForged ==
    \/ OnAccept
    \/ NewNodeIdentify
    \/ LostConnection
    \/ SetDataCacheOptions
    \/ NewForgedMessage

SpecForged == Init /\ [][NextForged]_vars

\* C29: a signed message whose claimant signature does not verify is dropped:
\* it is not counted in the accumulator, not put into the data cache, not
\* dispatched and not surfaced to the user.
ForgedMessageDropped ==
    [][(last'.op = "ForgedMessage" /\ ~ClaimantSignatureVerifies(last'.sm)) =>
        /\ node'.message_accumulator = node.message_accumulator
        /\ node'.data_cache = node.data_cache
        /\ node'.dispatched = <<>>
        /\ node'.events = <<>>]_vars

\* a name at the far end of the name space from the seed node's
FarName == NameSpace - 1

\* destinations of the delivered messages: a group near the seed node's name
\* and one far from it, the seed node itself, another node, another client
GroupDestinations == {NaeManager(DataName), NaeManager(FarName)}

SingleDestinations ==
    {ManagedNode(SeedName), ManagedNode(Hash(Hash(1))),
     ClientAuthority(Hash(Hash(1)), ForgerKey)}

\* a request of the group NaeManager(DataName), sent on by the node peer k
CheckedMessage(k, to) ==
    SignedMessage(AddressNode(Hash(Hash(k))),
        RoutingMessage(NaeManager(DataName), to, ExternalRequest(1, DataName)), k)

AuthorityMessages ==
    {CheckedMessage(k, to) : k \in 1..QUORUM_SIZE, to \in GroupDestinations}
        \cup {CheckedMessage(1, to) : to \in SingleDestinations}

NewAuthorityMessage ==
    \E sm \in AuthorityMessages :
        /\ Polling
        /\ node' = handle_routing_message(BeginStep(node), sm)
        /\ last' = Input("AuthorityMessage", 0, NoInput.pid, sm)

NextAuth ==
    \/ OnAccept
    \/ NewNodeIdentify
    \/ LostConnection
    \/ NewAuthorityMessage

SpecAuth == Init /\ [][NextAuth]_vars

\* the destination of message is not ours in state s: a group whose name is
\* outside our close-group range, or a single node or client that is not us
NotOurs(s, message) ==
    IF IsGroup(message.to) THEN ~name_in_range(s, Location(message.to))
    ELSE \A a \in AuthorityAddress(message.to) : ~is_us(s, a)

\* the step that handled sm in state s came to the authority check: neither
\* filter knew the message, the cache had no answer, forwarding returned
ReachesAuthorityCheck(s, sm, after) ==
    /\ ~ClaimantFilterCheck(s, sm)
    /\ ~HandledCheck(s, sm.msg)
    /\ handle_cache_get(handle_cache_put(s, sm.msg), sm.msg) = {}
    /\ after.pc = "running"

\* the step counted the message in the accumulator or dispatched it
Accumulated(s, after) ==
    \/ after.message_accumulator # s.message_accumulator
    \/ after.dispatched # <<>>
    \/ after.result = "NotEnoughSignatures"

\* C30: a message whose destination is a group outside our close-group range,
\* or a single node that is not us, fails the authority check, when the step
\* comes to it, with BadAuthority; in every case it is not accumulated, not
\* dispatched, not surfaced to the user and no connection is closed; only a
\* message that passes the check is accumulated.
BadAuthorityRule ==
    [][last'.op = "AuthorityMessage" =>
        /\ (NotOurs(node, last'.sm.msg) /\ ReachesAuthorityCheck(node, last'.sm, node'))
              => node'.result = "BadAuthority"
        /\ NotOurs(node, last'.sm.msg) =>
              /\ ~Accumulated(node, node')
              /\ node'.events = <<>>
              /\ node'.drops = <<>>
        /\ Accumulated(node, node') => ~NotOurs(node, last'.sm.msg)]_vars

\* a group message for a name outside the close-group range of a core with
\* a full close group was forwarded and then refused
OutOfRangeRefused ==
    /\ last.op = "AuthorityMessage"
    /\ IsGroup(last.sm.msg.to)
    /\ RtSize(node) >= GROUP_SIZE
    /\ ~name_in_range(node, Location(last.sm.msg.to))
    /\ node.forwarded # <<>>
    /\ node.result = "BadAuthority"

\* client destinations of user messages: the first relayed client behind us,
\* and a client behind the node peer 1
ClientDestinations ==
    {ClientAuthority(SeedName, MaxNodes + 1), ClientAuthority(Hash(Hash(1)), ForgerKey)}

SendToClient ==
    \E to_authority \in ClientDestinations, content \in UserContents :
        /\ Running
        /\ node' = send_content(BeginStep(node), ManagedNode(node.id_name),
                                to_authority, content)
        /\ last' = Input("SendToClient", 0, NoInput.pid,
                         UserAction({ManagedNode(node.id_name)}, to_authority, content))

NextRoute ==
    \/ OnAccept
    \/ NewNodeIdentify
    \/ NewClientIdentify
    \/ SendToClient

SpecRoute == Init /\ [][NextRoute]_vars

\* the connections of the routing table's target nodes toward a name
TargetConnections(s, name) ==
    {RtTargetNodes(s, name)[i].conn : i \in 1..Len(RtTargetNodes(s, name))}

\* C31: in node mode a message for Client(_, key) goes out on exactly the one
\* relay connection when key is in the relay map, and otherwise to every
\* connection of the routing table's target nodes toward the location.
ClientMessageRelayedOrRouted ==
    [][(last'.op = "SendToClient" /\ is_node(node)) =>
        IF last'.sm.to.key \in MapKeys(node.relay_map)
        THEN /\ Len(node'.sent) = 1
             /\ [k |-> last'.sm.to.key, v |-> node'.sent[1].conn] \in node.relay_map
             /\ node'.sent[1].bytes = Encode(SignedForUser(node, last'.sm))
        ELSE /\ {node'.sent[i].conn : i \in 1..Len(node'.sent)}
                   = TargetConnections(node, Location(last'.sm.to))
             /\ \A i \in 1..Len(node'.sent) :
                   node'.sent[i].bytes = Encode(SignedForUser(node, last'.sm))]_vars

\* C32: the transmissions of one step carry a given signed message on any
\* given connection at most once, for a message originated through
\* SendContent as for a message received from the network.
TransmittedAtMostOnce ==
    last.op \in {"SendContent", "NewMessage"} =>
        \A i, j \in 1..Len(node.sent) :
            (/\ node.sent[i].bytes.type = "SignedMessage"
             /\ node.sent[i] = node.sent[j]) => i = j

\* the transmissions of the step that carry a Connect request of ours for
\* the node named name
ConnectRequestsSentTo(s, name) ==
    {i \in 1..Len(s.sent) :
        /\ s.sent[i].bytes.type = "SignedMessage"
        /\ s.sent[i].bytes.signed_message.msg.content.type = "Connect"
        /\ s.sent[i].bytes.signed_message.msg.to = ManagedNode(name)}

\* the node peer of the last connection, whose connect handshake with the
\* seed node is followed in both directions
HandshakePeers == {pid \in MessagePeers : pid.key = MaxConns}

\* Connect requests addressed to the seed node: of the node peer, signed by
\* the peer or by the forger, and of a client peer whose public id no
\* relocation has put into the public-id cache
ConnectRequestInputs ==
    {SignedMessage(AddressNode(pid.name),
        RoutingMessage(ManagedNode(pid.name), ManagedNode(SeedName),
                       ConnectRequest(<<pid.key>>, pid)), signer) :
        <<pid, signer>> \in
            {x \in HandshakePeers \X (Conns \cup {ForgerKey}) :
                x[2] \in {x[1].key, ForgerKey}}}
    \cup {SignedMessage(AddressClient(pid.key),
              RoutingMessage(ClientAuthority(SeedName, pid.key), ManagedNode(SeedName),
                             ConnectRequest(<<pid.key>>, pid)), pid.key) :
              pid \in ClientIds}

\* the members of the close group that the relocation responses name
CloseGroupOf(messages) ==
    UNION {{sm.msg.content.close_group_ids[i] :
                i \in 1..Len(sm.msg.content.close_group_ids)} : sm \in messages}

\* the messages of the connect handshake: the Connect requests above, the
\* Connect responses of the node peer to the seed node with any of the tokens,
\* and the replies of the members of that close group to the connect request
\* this node sent them as a client
ConnectMessages ==
    ConnectRequestInputs
        \cup {m \in ConnectResponseInputs : m.msg.content.public_id \in HandshakePeers}
        \cup {m \in ConnectResponseMessages :
                 m.msg.content.public_id \in CloseGroupOf(RelocationMessages)}

\* NewMessage(connection, bytes) with a Connect request or a Connect response
NewConnectMessage ==
    \E sm \in ConnectMessages :
        /\ Polling
        /\ node' = handle_routing_message(BeginStep(node), sm)
        /\ last' = Input(IF sm.msg.content.type = "Connect"
                         THEN "ConnectRequest" ELSE "ConnectResponse",
                         0, NoInput.pid, sm)

\* the connect handshake in both directions and the relocation handshake
NextAttempt ==
    \/ OnConnect
    \/ OnAccept
    \/ NewNodeIdentify
    \/ LostConnection
    \/ NewConnectMessage
    \/ NewRelocationResponse

SpecAttempt == Init /\ [][NextAttempt]_vars

\* the step delivered a signed message with a Connect request or a Connect
\* response that reached the dispatch
ConnectMessageDispatched(type) ==
    /\ last'.sm # NoMessage
    /\ last'.sm.msg.content.type = type
    /\ node'.pc = "running"
    /\ \E i \in 1..Len(node'.dispatched) : node'.dispatched[i] = last'.sm.msg

\* the checks of handle_connect_request on the state s before the step: a
\* client's public id is cached under the key of the authority, the token
\* carries the signature of the public id, the routing table wants the name
RequestValid(s, sm) ==
    /\ sm.msg.from.kind = "Client" =>
          \E e \in s.public_id_cache :
              e.k = sm.msg.content.public_id.name /\ e.v.key = sm.msg.from.key
    /\ sm.signer = sm.msg.content.public_id.key
    /\ RtWantToAdd(s, sm.msg.content.public_id.name)

\* the checks of handle_connect_response other than on the routing table
TokenIsOurs(s, response) ==
    /\ response.token.signer = OurKey
    /\ \E a \in AuthorityAddress(response.token.msg.from) : is_us(s, a)

\* C33 as stated: for a peer name that is in the connection filter no
\* connect attempt is started: no step sends a Connect request to it, and no
\* transport connect is initiated on its Connect request or Connect response.
OneAttemptPerName ==
    [][\A name \in node.connection_filter :
          /\ ConnectRequestsSentTo(node', name) = {}
          /\ (/\ last'.sm # NoMessage
              /\ last'.sm.msg.content.type \in {"Connect", "ConnectResponse"}
              /\ last'.sm.msg.content.public_id.name = name)
                 => node'.connects = <<>>]_vars

\* C33 amended: the connection filter gates the scan only.  For a claimant
\* whose name is in the filter the scan sends no Connect request.  The
\* handlers of a Connect request and of a Connect response do not look into
\* the filter: a transport connect is initiated exactly when the handler's
\* checks on the token, the cached public id and the routing table pass, in
\* the filter or not, and the name connected to is in the filter afterwards.
\* The fan-out of an accepted relocation response sends a Connect request to
\* every member of the close group over the bootstrap connection, in the
\* filter or not, and adds nothing to the filter.
FilterGatesScanOnly ==
    [][/\ (/\ last'.sm # NoMessage
           /\ last'.sm.msg.content.type \in {"Connect", "ConnectResponse"}
           /\ last'.sm.claimant.kind = "Node"
           /\ last'.sm.claimant.id \in node.connection_filter) =>
              ConnectRequestsSentTo(node', last'.sm.claimant.id) = {}
       /\ ConnectMessageDispatched("Connect") =>
              /\ node'.connects # <<>> <=> RequestValid(node, last'.sm)
              /\ node'.connects # <<>> =>
                    last'.sm.msg.content.public_id.name \in node'.connection_filter
       /\ ConnectMessageDispatched("ConnectResponse") =>
              /\ node'.connects # <<>> <=>
                    /\ TokenIsOurs(node, last'.sm.msg.content)
                    /\ RtWantToAdd(node, last'.sm.msg.content.public_id.name)
              /\ node'.connects # <<>> =>
                    last'.sm.msg.content.public_id.name \in node'.connection_filter
       /\ (/\ RelocationResponseDispatched
           /\ IsReplyToOurRequest(node, last'.sm.msg.content)
           /\ node.bootstrap_map # {}) =>
              /\ \A i \in 1..Len(last'.sm.msg.content.close_group_ids) :
                    ConnectRequestsSentTo(node',
                        last'.sm.msg.content.close_group_ids[i].name) # {}
              /\ node'.connection_filter \ node.connection_filter
                    \subseteq ScanAdds(node, last'.sm)]_vars

\* a transport connect was initiated on the Connect request of a node peer
\* the routing table wants, while the scan of the same step sent no Connect
\* request to the peer: its name was in the connection filter already
RequestConnectDespiteFilter ==
    /\ last.op = "ConnectRequest"
    /\ last.sm.claimant.kind = "Node"
    /\ node.network_name # {}
    /\ node.result = "Ok"
    /\ Len(node.connects) = 1
    /\ ConnectRequestsSentTo(node, last.sm.claimant.id) = {}
    /\ last.sm.claimant.id \in node.connection_filter

\* the Connect request of a client peer whose public id is not cached was
\* refused, and nothing was connected
ClientRequestRefused ==
    /\ last.op = "ConnectRequest"
    /\ last.sm.msg.from.kind = "Client"
    /\ node.dispatched = <<last.sm.msg>>
    /\ node.result = "BadAuthority"
    /\ node.connects = <<>>

\* an accepted relocation response had a Connect request sent to a member of
\* the close group whose name is in the connection filter, which no scan ran
\* on in this step
FanOutDespiteFilter ==
    /\ last.sm \in RelocationMessages
    /\ node.result = "Ok"
    /\ node.state = "Relocated"
    /\ node.network_name = {}
    /\ \E i \in 1..Len(last.sm.msg.content.close_group_ids) :
          /\ last.sm.msg.content.close_group_ids[i].name \in node.connection_filter
          /\ ConnectRequestsSentTo(node,
                 last.sm.msg.content.close_group_ids[i].name) # {}

\* a transport connect was initiated on the Connect response of a responder
\* the routing table wants, while the scan of the same step sent no Connect
\* request to it: its name was in the connection filter already
ConnectDespiteFilter ==
    /\ last.op = "ConnectResponse"
    /\ node.network_name # {}
    /\ Len(node.connects) = 1
    /\ ConnectRequestsSentTo(node, last.sm.claimant.id) = {}

\* Refresh messages for the group NaeManager(DataName), type_tag 1 and cause
\* DataName, sent on by the node peers 1..QUORUM_SIZE, each with its own
\* payload, under the group's authority or under the sender's own; one
\* addressed to the seed node alone, and one of a client claimant.
RefreshOf(k, from) ==
    SignedMessage(AddressNode(Hash(Hash(k))),
        RoutingMessage(from, NaeManager(DataName), Refresh(1, k, DataName)), k)

RefreshMessages ==
    {RefreshOf(k, NaeManager(DataName)) : k \in 1..QUORUM_SIZE}
        \cup {RefreshOf(k, ManagedNode(Hash(Hash(k)))) : k \in 1..QUORUM_SIZE}
        \cup {SignedMessage(AddressNode(Hash(Hash(1))),
                  RoutingMessage(ManagedNode(Hash(Hash(1))), ManagedNode(SeedName),
                                 Refresh(1, 1, DataName)), 1),
              SignedMessage(AddressClient(ForgerKey),
                  RoutingMessage(ClientAuthority(SeedName, ForgerKey), NaeManager(DataName),
                                 Refresh(1, ForgerKey, DataName)), ForgerKey)}

NewRefresh ==
    \E sm \in RefreshMessages :
        /\ Polling
        /\ node' = handle_routing_message(BeginStep(node), sm)
        /\ last' = Input("Refresh", 0, NoInput.pid, sm)

NextRefresh ==
    \/ OnAccept
    \/ NewNodeIdentify
    \/ LostConnection
    \/ NewRefresh

SpecRefresh == Init /\ [][NextRefresh]_vars

\* the senders collected for the Refresh message in state s
RefreshSenders(s, message) ==
    MapKeys(RefreshBucket(s, [type_tag |-> message.content.type_tag,
                              authority |-> message.to,
                              cause |-> message.content.cause]))

RefreshEvents(s) ==
    {i \in 1..Len(s.events) : s.events[i].type = "Refresh"}

\* the Refresh message sm is new to both filters of a core that has a
\* network name and routing peers
FreshForNode(s, sm) ==
    /\ s.network_name # {}
    /\ is_node(s)
    /\ ~ClaimantFilterCheck(s, sm)
    /\ ~HandledCheck(s, sm.msg)

\* C34: a Refresh of a node claimant for a group of ours reaches the refresh
\* accumulator whatever its payload, and Event::Refresh is emitted iff
\* min(routing-table size, QUORUM_SIZE) distinct senders have contributed; a
\* Refresh under a single-node authority or of a client claimant is refused
\* with BadAuthority.
RefreshQuorumOfSenders ==
    [][(last'.op = "Refresh" /\ FreshForNode(node, last'.sm)) =>
        IF last'.sm.claimant.kind = "Client" \/ ~IsGroup(last'.sm.msg.to)
        THEN /\ node'.result = "BadAuthority"
             /\ RefreshEvents(node') = {}
             /\ node'.refresh_accumulator = node.refresh_accumulator
        ELSE /\ last'.sm.claimant.id \in RefreshSenders(node', last'.sm.msg)
             /\ RefreshEvents(node') # {} <=>
                   Cardinality(RefreshSenders(node', last'.sm.msg))
                       >= routing_table_quorum_size(node)]_vars

\* ourselves as the client of a relay far from the seed node's name
FarClient == ClientAuthority(FarName, OurKey)

\* a request of ours as that client, and the token a responder returns
OurRequest ==
    SignedByUs(AddressClient(OurKey),
        RoutingMessage(FarClient, NaeManager(DataName), ExternalRequest(1, DataName)))

\* the tokens of the delivered responses: none, ours, ours under a forger's key
ResponseTokenOptions ==
    {{}, {AsToken(OurRequest)},
     {AsToken(SignedMessage(OurRequest.claimant, OurRequest.msg, ForgerKey))}}

\* Responses of node peer 1 for us as a client, with each token option, and
\* one without token for a group of ours; requests of node peer 1 under its
\* own authority and of the node peers 1..QUORUM_SIZE under a group's.
ExternalMessages ==
    {SignedMessage(AddressNode(Hash(Hash(1))),
        RoutingMessage(ManagedNode(Hash(Hash(1))), FarClient,
                       ExternalResponse(1, DataName, token)), 1) :
        token \in ResponseTokenOptions}
    \cup {SignedMessage(AddressNode(Hash(Hash(1))),
        RoutingMessage(ManagedNode(Hash(Hash(1))), NaeManager(DataName),
                       ExternalResponse(1, DataName, {})), 1)}
    \cup {SignedMessage(AddressNode(Hash(Hash(1))),
        RoutingMessage(ManagedNode(Hash(Hash(1))), NaeManager(DataName),
                       ExternalRequest(1, DataName)), 1)}
    \cup {SignedMessage(AddressNode(Hash(Hash(k))), GroupRequest, k) : k \in 1..QUORUM_SIZE}

NewExternal ==
    \E sm \in ExternalMessages :
        /\ Polling
        /\ node' = handle_routing_message(BeginStep(node), sm)
        /\ last' = Input("External", 0, NoInput.pid, sm)

NextExt ==
    \/ OnAccept
    \/ NewNodeIdentify
    \/ LostConnection
    \/ NewExternal

SpecExt == Init /\ [][NextExt]_vars

\* the user events of the step of the given type that carry the message
SurfacedAs(s, type, message) ==
    {i \in 1..Len(s.events) :
        /\ s.events[i].type = type
        /\ s.events[i].content = message.content
        /\ s.events[i].our_authority = message.to
        /\ s.events[i].from_authority = message.from}

\* the step dispatched the message: it passed the authority check and
\* accumulation
WasDispatched(s, message) ==
    \E i \in 1..Len(s.dispatched) : s.dispatched[i] = message

\* the token of an external response is missing or carries our signature
TokenAdmits(s, message) ==
    IF message.content.token # {}
    THEN \A t \in message.content.token : t.signer = OurKey
    ELSE name_in_range(s, Location(message.to))

\* C35: a dispatched ExternalResponse is surfaced as Event::Response iff its
\* token verifies against our key or, without token, the destination is in
\* our close-group range; otherwise no event is emitted and FailedSignature
\* respectively BadAuthority is returned.  A dispatched ExternalRequest is
\* surfaced as Event::Request with a response token iff its source is not a
\* group.
ExternalSurfacing ==
    [][last'.op = "External" =>
        LET message == last'.sm.msg
        IN  IF message.content.type = "ExternalResponse"
            THEN /\ SurfacedAs(node', "Response", message) # {} =>
                       WasDispatched(node', message) /\ TokenAdmits(node, message)
                 /\ WasDispatched(node', message) =>
                       IF TokenAdmits(node, message)
                       THEN /\ Cardinality(SurfacedAs(node', "Response", message)) = 1
                            /\ node'.result = "Ok"
                       ELSE /\ node'.events = <<>>
                            /\ node'.result =
                                  IF message.content.token # {}
                                  THEN "FailedSignature" ELSE "BadAuthority"
            ELSE /\ SurfacedAs(node', "Request", message) # {} =>
                       WasDispatched(node', message)
                 /\ WasDispatched(node', message) =>
                       /\ Cardinality(SurfacedAs(node', "Request", message)) = 1
                       /\ \A i \in SurfacedAs(node', "Request", message) :
                             node'.events[i].response_token # {}
                                 <=> ~IsGroup(message.from)]_vars

\* a response whose token carries a forger's signature was dispatched and
\* refused without an event
ForgedResponseRefused ==
    /\ last.op = "External"
    /\ last.sm.msg.content.type = "ExternalResponse"
    /\ WasDispatched(node, last.sm.msg)
    /\ node.result = "FailedSignature"
    /\ node.events = <<>>

\* C36: a message whose dispatch ends with UnknownMessageType is in the
\* handled-messages filter afterwards, so that the same routing message is
\* dropped at the dedup step whoever the claimant.
UnknownTypeMarkedHandled ==
    (last.sm # NoMessage /\ node.pc = "running" /\ node.result = "UnknownMessageType")
        => HandledCheck(node, last.sm.msg)

\* internal requests sent from a group authority, which reach the dispatch
\* without a signed token once a quorum of claimants has delivered them
TokenlessMessages ==
    {SignedMessage(AddressNode(Hash(Hash(k))),
        RoutingMessage(NaeManager(DataName), NaeManager(DataName), c), k) :
        k \in 1..QUORUM_SIZE,
        c \in {RequestNetworkName(PublicId(3, Hash(3))),
               ConnectRequest(<<3>>, PublicId(3, Hash(Hash(3))))}}

\* NewMessage(connection, bytes) with an internal request of a group
NewTokenless ==
    \E sm \in TokenlessMessages :
        /\ Polling
        /\ node' = handle_routing_message(BeginStep(node), sm)
        /\ last' = Input("NewMessage", 0, NoInput.pid, sm)

\* messages whose dispatch ends with UnknownMessageType, over the connections
\* of node peers
NextUnknown ==
    \/ OnAccept
    \/ NewNodeIdentify
    \/ NewTokenless
    \/ NewBadRelocationResponse

SpecUnknown == Init /\ [][NextUnknown]_vars

\* the step handled a message and its dispatch ended with UnknownMessageType
EndedUnknown ==
    last.sm # NoMessage /\ node.pc = "running" /\ node.result = "UnknownMessageType"

\* C36 (amended): a message whose dispatch ends with UnknownMessageType in the
\* final match is afterwards in the claimant filter under its claimant, and a
\* request of a group that arrived without a token, which returns before the
\* final match, is in the handled-messages filter through its accumulation.
UnknownTypeMarkedForClaimant ==
    EndedUnknown =>
        IF last.sm.msg.content.type \in {"RequestNetworkName", "Connect"}
        THEN HandledCheck(node, last.sm.msg)
        ELSE ClaimantFilterCheck(node, last.sm)

\* a relocation response ended with UnknownMessageType and is in the claimant
\* filter but not in the handled-messages filter
UnknownMarkedForClaimantOnly ==
    /\ EndedUnknown
    /\ last.sm.msg.content.type = "RelocatedNetworkNameResponse"
    /\ ClaimantFilterCheck(node, last.sm)
    /\ ~HandledCheck(node, last.sm.msg)

\* C37: after the valid Identify of a client is handled in a state that admits
\* clients, no relay entry points to a connection the core asked the transport
\* to drop in that step; a client admitted below the cap keeps its connection.
RelayEntriesLive ==
    (last.op = "Identify" /\ ~IsNodeId(last.pid) /\ node.pc = "running"
     /\ Cardinality(node.relay_map) <= MAX_RELAYS)
        => \A e \in node.relay_map :
               \A i \in 1..Len(node.drops) : node.drops[i] # e.v

\* the transport events the core reserves for rendezvous and hole punching
ReservedEvents == {"OnRendezvousConnect", "OnUdpSocketMapped", "OnHolePunched"}

\* the arms of run() for the reserved events: unimplemented!()
HandleReservedEvent(s) == Panic(s)

\* OnRendezvousConnect, OnUdpSocketMapped or OnHolePunched from the transport
ReservedEvent ==
    \E event \in ReservedEvents :
        /\ Polling
        /\ node' = HandleReservedEvent(BeginStep(node))
        /\ last' = Input(event, 0, NoInput.pid, NoMessage)

\* the loop with the reserved events of the transport
NextReserved ==
    \/ OnAccept
    \/ NewNodeIdentify
    \/ LostConnection
    \/ Terminate
    \/ ReservedEvent

SpecReserved == Init /\ [][NextReserved]_vars

\* C38: a reserved transport event leaves the state, the maps and the routing
\* table as they were, and the loop goes on.
ReservedEventIgnored ==
    [][last'.op \in ReservedEvents =>
          /\ node'.pc = "running"
          /\ node'.state = node.state
          /\ node'.relay_map = node.relay_map
          /\ node'.bootstrap_map = node.bootstrap_map
          /\ node'.routing_table = node.routing_table]_vars

\* the last step emitted an event of the given type
Emitted(s, type) == \E i \in 1..Len(s.events) : s.events[i].type = type

\* C39: a step emits Event::Connected exactly when it changes the state to
\* GroupConnected, and Event::Bootstrapped exactly when it changes the state
\* from Disconnected to Bootstrapped; no step returns to Disconnected.
EventsFollowStateChanges ==
    [][/\ Emitted(node', "Connected")
            <=> (node.state # "GroupConnected" /\ node'.state = "GroupConnected")
       /\ Emitted(node', "Bootstrapped")
            <=> (node.state = "Disconnected" /\ node'.state = "Bootstrapped")
       /\ node.state # "Disconnected" => node'.state # "Disconnected"]_vars

\* the step is a NewMessage whose message passes both filters and finds its
\* data in the cache
CacheHitStep ==
    /\ last'.op = "NewMessage"
    /\ last'.sm # NoMessage
    /\ ~ClaimantFilterCheck(node, last'.sm)
    /\ ~HandledCheck(node, last'.sm.msg)
    /\ handle_cache_get(handle_cache_put(node, last'.sm.msg), last'.sm.msg) # {}

\* every signed message the scan block handed to send during the step is in
\* the claimant filter under its claimant
ForwardedAreMarked(s) ==
    \A i \in 1..Len(s.forwarded) : ClaimantFilterCheck(s, s.forwarded[i])

\* C40: every call of handle_routing_message made in a step has returned when
\* the step ends, no signed message has more than two nested calls, every
\* forwarded message is in the claimant filter, and a message answered from the
\* cache is in the claimant filter as well.
RecursionBoundedByFilter ==
    [][/\ node'.handling = <<>>
       /\ node'.nesting <= 2
       /\ ForwardedAreMarked(node')
       /\ CacheHitStep => ClaimantFilterCheck(node', last'.sm)]_vars

\* C40 (amended): every call of handle_routing_message made in a step has
\* returned when the step ends, no signed message has more than two nested
\* calls and no more than three calls are nested in all, every message the scan
\* block forwarded is in the claimant filter, and a message answered from the
\* cache is not put into the claimant filter.
RecursionBoundedByReentry ==
    [][/\ node'.handling = <<>>
       /\ node'.nesting <= 2
       /\ node'.depth <= 3
       /\ ForwardedAreMarked(node')
       /\ CacheHitStep => ~ClaimantFilterCheck(node', last'.sm)]_vars

\* a request was answered from the cache by a node: the reply re-entered the
\* pipeline twice under the call for the request, which is left unmarked
CacheReplyReentered ==
    /\ last.op = "NewMessage"
    /\ last.sm.msg.content.type = "ExternalRequest"
    /\ node.pc = "running"
    /\ node.depth = 3
    /\ node.nesting = 2
    /\ Len(node.forwarded) = 1
    /\ node.forwarded[1].msg.content.type = "ExternalResponse"
    /\ ~ClaimantFilterCheck(node, last.sm)

====
